---------------------------- MODULE Spec2Model ----------------------------
(***************************************************************************)
(* A model of the RA compensation calculator (src/pico/main.py):           *)
(*   - the calendar arithmetic and RaDisplay.show_ra (compensation),       *)
(*   - RaFRAM, the marker-protected store over the FRAM bytes,             *)
(*   - CommandQueue, the depth-1 queue between callbacks and main loop,    *)
(*     call by call and statement by statement,                            *)
(*   - StateMachine.process_command as the main loop calls it.             *)
(* Python strings are sequences of one-character strings, an Optional      *)
(* value is a set holding no element (None) or exactly one.                *)
(***************************************************************************)
EXTENDS Integers, Sequences, FiniteSets, TLC

VARIABLES
    rtc,                \* RaRTC.datetime(): [year, month, dom, h, m]
    ra_target,          \* StateMachine._ra_target, an RA [h, m]
    calibration_date,   \* StateMachine._calibration_date, [d, m]
    display,            \* the character pairs on l_matrix and r_matrix
    show_ra_out,        \* Optional: what the show_ra call of ShowRa computed
    fram,               \* the FRAM bytes at offsets 0..7
    cache,              \* RaFRAM's cached values _brightness, _ra_target
                        \* and _calibration_date, each Optional
    fram_call,          \* Optional: the RaFRAM call in progress
    fram_ret,           \* Optional: the last completed RaFRAM call
    committed,          \* per record: the payload of the write that last
                        \* set its marker valid (history)
    torn,               \* per record: a write was cut between its two
                        \* marker writes and no call on it completed since
    fram_ops,           \* number of RaFRAM calls and power cuts so far
    unacked,            \* number of byte writes the FRAM did not
                        \* acknowledge so far (history)
    queue,              \* CommandQueue._queue
    queue_log,          \* the latest CommandQueue calls (history)
    handler,            \* per callback: Optional, the command of a put
                        \* that passed its length check and has not
                        \* appended yet
    getter,             \* the main loop's place in CommandQueue.get
    puts,               \* number of put calls begun by callbacks
    appended,           \* number of commands appended to the queue
    delivered,          \* number of commands returned by get
    state,              \* StateMachine._state
    to_idle_countdown,  \* StateMachine._to_idle_countdown
    brightness,         \* StateMachine._brightness
    display_brightness, \* RaDisplay._brightness_f, in twentieths
    timer,              \* StateMachine._timer is not None
    programming,        \* StateMachine._programming
    programming_left,   \* StateMachine._programming_left
    programming_right,  \* StateMachine._programming_right
    programming_left_on,    \* StateMachine._programming_left_on
    programming_right_on,   \* StateMachine._programming_right_on
    programming_state,  \* StateMachine._programming_state
    programming_value,  \* StateMachine._programming_value, Optional
    running,            \* the main loop has not left its 'while True'
    last,               \* Optional: the command processed last, with the
                        \* state it met and what it did (history)
    edit_entry,         \* Optional: the state and the stored values when
                        \* program mode was entered (history)
    ticks,              \* Optional: the _CMD_TICKs processed since a
                        \* display state was entered or "UP" or "DOWN" was
                        \* processed in one, with no other command in
                        \* between (history)
    presses,            \* number of _CMD_BUTTON_3 and _CMD_BUTTON_4
                        \* processed so far
    button,             \* per button: whether its interrupt is armed,
                        \* the handler's next statement (0: not running),
                        \* what pin.value() gives after the debounce, and
                        \* (history) the duration measured, the command
                        \* put and the statements run since the entry
    edges,              \* number of button edges handled so far
    cmd,                \* Optional: main's cmd, the command get() returned
                        \* that process_command has not been given yet
    processed           \* number of commands given to process_command

clock_vars == <<rtc, ra_target, calibration_date, display, show_ra_out>>
fram_vars == <<fram, cache, fram_call, fram_ret, committed, torn, fram_ops,
               unacked>>
queue_vars == <<queue, queue_log>>
race_vars == <<handler, getter, puts, appended, delivered>>
sm_vars == <<state, to_idle_countdown, brightness, display_brightness, timer,
             programming, programming_left, programming_right,
             programming_left_on, programming_right_on, programming_state,
             programming_value, running, last, edit_entry, ticks, presses>>
button_vars == <<button, edges>>
loop_vars == <<cmd, processed>>
vars == <<clock_vars, fram_vars, queue_vars, race_vars, sm_vars, button_vars,
          loop_vars>>

\* Bounds of the model
MaxFramOps == 5
MaxUnacked == 1
QueueLogLen == 4

None == {}
Some(v) == {v}
Get(o) == CHOOSE v \in o : TRUE

-----------------------------------------------------------------------------
(* Python string formatting and parsing *)

DigitChars == <<"0", "1", "2", "3", "4", "5", "6", "7", "8", "9">>

RECURSIVE Decimal(_)
\* str(n)
Decimal(n) ==
    IF n < 0 THEN <<"-">> \o Decimal(0 - n)
    ELSE IF n < 10 THEN <<DigitChars[n + 1]>>
    ELSE Append(Decimal(n \div 10), DigitChars[(n % 10) + 1])

\* f'{n:02d}': zero-padded to a width of at least 2, the sign counted
Fmt02d(n) == IF 0 <= n /\ n < 10 THEN <<"0">> \o Decimal(n) ELSE Decimal(n)

\* f'{n:2d}': space-padded to a width of at least 2, the sign counted
Fmt2d(n) == IF 0 <= n /\ n < 10 THEN <<" ">> \o Decimal(n) ELSE Decimal(n)

IsDigit(c) == \E i \in 1..10 : DigitChars[i] = c

DigitValue(c) == (CHOOSE i \in 1..10 : DigitChars[i] = c) - 1

RECURSIVE Strip(_)
\* s.strip() for the blanks a formatted number can carry
Strip(s) ==
    IF s = <<>> THEN s
    ELSE IF s[1] = " " THEN Strip(Tail(s))
    ELSE IF s[Len(s)] = " " THEN Strip(SubSeq(s, 1, Len(s) - 1))
    ELSE s

RECURSIVE DigitsValue(_)
DigitsValue(s) ==
    IF s = <<>> THEN 0
    ELSE 10 * DigitsValue(SubSeq(s, 1, Len(s) - 1)) + DigitValue(s[Len(s)])

\* int(s) of an unsigned decimal string; -1 stands for ValueError
int(s) ==
    LET t == Strip(s) IN
    IF t # <<>> /\ \A i \in 1..Len(t) : IsDigit(t[i])
    THEN DigitsValue(t)
    ELSE -1

-----------------------------------------------------------------------------
(* Calendar arithmetic *)

DAY_MINUTES == 1440

\* _CUMULATIVE_DAYS[leap]; Python index i is position i + 1
CUMULATIVE_DAYS(leap) ==
    IF leap
    THEN <<0, 31, 60, 91, 121, 152, 182, 213, 244, 274, 305, 335, 366>>
    ELSE <<0, 31, 59, 90, 120, 151, 181, 212, 243, 273, 304, 334, 365>>

\* _DAYS[month], month 1..12 (the unused entry 0 is left out)
DAYS == <<31, 28, 31, 30, 31, 30, 31, 31, 30, 31, 30, 31>>

\* A faulty variant of leap_year: the Julian rule, without the century exception
leap_year_div4(year) == year % 4 = 0

\* leap_year: divisible by 4 and not by 100, or divisible by 400
leap_year(year) == (year % 4 = 0 /\ year % 100 # 0) \/ year % 400 = 0

\* A faulty variant of now_offset: without the year added when the calibration date is later in the year
now_offset_no_bridge(c_day, c_month, now_day, now_month, now_year) ==
    now_day + CUMULATIVE_DAYS(leap_year(now_year))[now_month]

\* now_offset of days_since_calibration, as it stands at the assertion
now_offset(c_day, c_month, now_day, now_month, now_year) ==
    LET today == now_day + CUMULATIVE_DAYS(leap_year(now_year))[now_month]
    IN  IF now_month < c_month \/ (now_month = c_month /\ now_day < c_day)
        THEN today + CUMULATIVE_DAYS(leap_year(now_year - 1))[13]
        ELSE today

\* c_offset of days_since_calibration
c_offset(c_day, c_month, now_day, now_month, now_year) ==
    IF now_month < c_month \/ (now_month = c_month /\ now_day < c_day)
    THEN c_day + CUMULATIVE_DAYS(leap_year(now_year - 1))[c_month]
    ELSE IF c_month > 1
         THEN c_day + CUMULATIVE_DAYS(leap_year(now_year))[c_month]
         ELSE c_day

\* days_since_calibration; -1 stands for the AssertionError of
\* 'assert now_offset > c_offset'
days_since_calibration(c_day, c_month, now_day, now_month, now_year) ==
    IF c_month = now_month /\ c_day = now_day THEN 0
    ELSE LET n == now_offset(c_day, c_month, now_day, now_month, now_year)
             c == c_offset(c_day, c_month, now_day, now_month, now_year)
         IN  IF n > c THEN n - c ELSE -1

-----------------------------------------------------------------------------
(* RaDisplay *)

Blank == [l |-> <<" ", " ">>, r |-> <<" ", " ">>]

\* RaDisplay.show(value): the pairs put on the two matrices; the display
\* is left as it is when 'assert len(value) == 4' fails
show(value, old) ==
    IF Len(value) # 4 THEN old
    ELSE [l |-> IF value[1] = "0" THEN <<" ", value[2]>>
                ELSE SubSeq(value, 1, 2),
          r |-> SubSeq(value, 3, 4)]

\* A faulty variant of whole_days: without the test for the calibration day itself
whole_days_always_minus_one(elapsed_days) == elapsed_days - 1

\* whole_days of show_ra
whole_days(elapsed_days) == IF elapsed_days # 0 THEN elapsed_days - 1 ELSE 0

\* scope_ra_minutes of show_ra after the wrap
wrap(scope_ra_minutes) ==
    IF scope_ra_minutes >= DAY_MINUTES
    THEN scope_ra_minutes - DAY_MINUTES
    ELSE scope_ra_minutes

\* The locals of RaDisplay.show_ra at its end. raised: an assertion failed
\* and nothing was shown.
show_ra(target, c_date, now) ==
    LET clock == Fmt02d(now.h) \o <<":">> \o Fmt02d(now.m)
        target_ra_minutes == target.h * 60 + target.m
        clock_hours == int(SubSeq(clock, 1, 2))
        clock_minutes == clock_hours * 60 + int(SubSeq(clock, 4, Len(clock)))
        sub_day_offset == clock_hours \div 6
        elapsed_days == days_since_calibration(c_date.d, c_date.m,
                                               now.dom, now.month, now.year)
        whole_days_offset == 4 * whole_days(elapsed_days)
        total == target_ra_minutes + clock_minutes + sub_day_offset
                 + whole_days_offset
        scope_ra_hours == wrap(total) \div 60
        scope_ra_minutes == wrap(total) % 60
        scope_ra == Fmt02d(scope_ra_hours) \o Fmt02d(scope_ra_minutes)
    IN  IF elapsed_days < 0
        THEN [raised |-> TRUE, elapsed_days |-> elapsed_days,
              drift |-> 0, total |-> 0, wrapped |-> 0,
              scope_ra_hours |-> 0, scope_ra_minutes |-> 0,
              scope_ra |-> <<>>]
        ELSE [raised |-> Len(scope_ra) # 4, elapsed_days |-> elapsed_days,
              drift |-> sub_day_offset + whole_days_offset,
              total |-> total, wrapped |-> wrap(total),
              scope_ra_hours |-> scope_ra_hours,
              scope_ra_minutes |-> scope_ra_minutes,
              scope_ra |-> scope_ra]

\* StateMachine._to_display_ra's call self._display.show_ra(...)
ShowRa ==
    /\ show_ra_out = None
    /\ \E out \in {show_ra(ra_target, calibration_date, rtc)} :
       /\ show_ra_out' = Some(out)
       /\ display' = IF out.raised THEN display ELSE show(out.scope_ra, display)
    /\ UNCHANGED <<rtc, ra_target, calibration_date, fram_vars, queue_vars, race_vars, sm_vars,
                   button_vars, loop_vars>>

-----------------------------------------------------------------------------
(* RaFRAM over BaseFRAM *)

MIN_BRIGHTNESS == 1
MAX_BRIGHTNESS == 20
DEFAULT_BRIGHTNESS == MIN_BRIGHTNESS
DEFAULT_RA_TARGET == [h |-> 5, m |-> 16]
DEFAULT_CALIBRATION_DATE == [d |-> 3, m |-> 1]

INVALID == 0
VALID == 33

OFFSET_BRIGHTNESS == 0
OFFSET_RA_TARGET == 2
OFFSET_CALIBRATION_DATE == 5

Records == {"brightness", "ra_target", "calibration_date"}

\* A faulty variant of Offset: the records are packed with no room for
\* the marker of the one before
offset_packed(f) ==
    CASE f = "brightness" -> 0
      [] f = "ra_target" -> 2
      [] f = "calibration_date" -> 4

\* A faulty variant of clear_bytes: the last write goes to the byte after
\* the marker of the calibration date
clear_bytes_off_by_one ==
    <<[offset |-> 0, byte |-> 0],
      [offset |-> 2, byte |-> 0],
      [offset |-> 6, byte |-> 0]>>

Offset(f) ==
    CASE f = "brightness" -> OFFSET_BRIGHTNESS
      [] f = "ra_target" -> OFFSET_RA_TARGET
      [] f = "calibration_date" -> OFFSET_CALIBRATION_DATE

Default(f) ==
    CASE f = "brightness" -> DEFAULT_BRIGHTNESS
      [] f = "ra_target" -> DEFAULT_RA_TARGET
      [] f = "calibration_date" -> DEFAULT_CALIBRATION_DATE

\* The value handed to _write_value by write_brightness (an int, here a
\* list of one), write_ra_target and write_calibration_date
Values(f, v) ==
    CASE f = "brightness" -> <<v>>
      [] f = "ra_target" -> <<v.h, v.m>>
      [] f = "calibration_date" -> <<v.d, v.m>>

\* The value the read_* methods build from the payload bytes
FromValues(f, value) ==
    CASE f = "brightness" -> value[1]
      [] f = "ra_target" -> [h |-> value[1], m |-> value[2]]
      [] f = "calibration_date" -> [d |-> value[1], m |-> value[2]]

\* BaseFRAM.write_byte, acknowledged
write_byte(mem, offset, byte_value) == [mem EXCEPT ![offset] = byte_value]

\* RaFRAM._read_value and RaFRAM._read_values
read_values(mem, offset, length) == [i \in 1..length |-> mem[offset + i]]

\* A faulty variant of is_value_valid: the marker is not looked at
is_value_valid_ignoring_marker(mem, offset) == TRUE

\* RaFRAM._is_value_valid
is_value_valid(mem, offset) == mem[offset] = VALID

\* A faulty variant of write_value: the marker is not invalidated first
write_value_no_invalidate(offset, value) ==
    [i \in 1..Len(value) |-> [offset |-> offset + i, byte |-> value[i]]]
    \o <<[offset |-> offset, byte |-> VALID]>>

\* The byte writes of RaFRAM._write_value, in order
write_value(offset, value) ==
    <<[offset |-> offset, byte |-> INVALID]>>
    \o [i \in 1..Len(value) |-> [offset |-> offset + i, byte |-> value[i]]]
    \o <<[offset |-> offset, byte |-> VALID]>>

\* The byte writes of RaFRAM.clear
clear_bytes ==
    <<[offset |-> OFFSET_BRIGHTNESS, byte |-> INVALID],
      [offset |-> OFFSET_RA_TARGET, byte |-> INVALID],
      [offset |-> OFFSET_CALIBRATION_DATE, byte |-> INVALID]>>

\* 'if self._brightness:' and its like: None and 0 are false, a
\* namedtuple is true
Truthy(f, c) == c # None /\ (f = "brightness" => Get(c) # 0)

\* A faulty variant of cache_saved: the cache is left as it was
cache_not_saved(old, v) == old

\* The cache entry once write_* has written the FRAM
cache_saved(old, v) == Some(v)

PayloadLength(f) == IF f = "brightness" THEN 1 ELSE 2

\* What a completed call leaves in fram_ret: the call, its argument (of a
\* write), the value it returned (of a read), whether the record was torn
\* when it ran, and the completed call right before it (None after a
\* power cut)
Returned(op, f, arg, v) ==
    [op |-> op, field |-> f, arg |-> arg, value |-> v,
     torn |-> IF f \in Records THEN torn[f] ELSE FALSE,
     prev |-> IF fram_ret = None THEN None
              ELSE Some([op |-> Get(fram_ret).op,
                         field |-> Get(fram_ret).field,
                         arg |-> Get(fram_ret).arg,
                         value |-> Get(fram_ret).value])]

\* read_brightness, read_ra_target, read_calibration_date up to the
\* first FRAM write: the cached value, else the stored value, else the
\* default is to be written
ReadCall(f) ==
    /\ fram_call = None
    /\ fram_ops < MaxFramOps
    /\ fram_ops' = fram_ops + 1
    /\ IF Truthy(f, cache[f])
       THEN /\ fram_ret' = Some(Returned("read", f, None, cache[f]))
            /\ torn' = [torn EXCEPT ![f] = FALSE]
            /\ UNCHANGED <<fram, cache, fram_call, committed>>
       ELSE IF is_value_valid(fram, Offset(f))
       THEN /\ cache' = [cache EXCEPT ![f] = Some(FromValues(f,
                            read_values(fram, Offset(f), PayloadLength(f))))]
            /\ fram_ret' = Some(Returned("read", f, None, cache'[f]))
            /\ torn' = [torn EXCEPT ![f] = FALSE]
            /\ UNCHANGED <<fram, fram_call, committed>>
       ELSE /\ fram_call' = Some([op |-> "read", field |-> f,
                                  value |-> Default(f),
                                  todo |-> write_value(Offset(f),
                                               Values(f, Default(f))),
                                  done |-> 0])
            /\ UNCHANGED <<fram, cache, fram_ret, committed, torn>>
    /\ UNCHANGED <<unacked, clock_vars, queue_vars, race_vars, sm_vars,
                   button_vars, loop_vars>>

\* write_brightness, write_ra_target, write_calibration_date up to the
\* first FRAM write
WriteCall(f, v) ==
    /\ fram_call = None
    /\ fram_ops < MaxFramOps
    /\ fram_ops' = fram_ops + 1
    /\ fram_call' = Some([op |-> "write", field |-> f, value |-> v,
                          todo |-> write_value(Offset(f), Values(f, v)),
                          done |-> 0])
    /\ UNCHANGED <<fram, cache, fram_ret, committed, torn, unacked>>
    /\ UNCHANGED <<clock_vars, queue_vars, race_vars, sm_vars,
                   button_vars, loop_vars>>

\* RaFRAM.clear up to the first FRAM write
ClearCall ==
    /\ fram_call = None
    /\ fram_ops < MaxFramOps
    /\ fram_ops' = fram_ops + 1
    /\ fram_call' = Some([op |-> "clear", field |-> "", value |-> 0,
                          todo |-> clear_bytes, done |-> 0])
    /\ UNCHANGED <<fram, cache, fram_ret, committed, torn, unacked>>
    /\ UNCHANGED <<clock_vars, queue_vars, race_vars, sm_vars,
                   button_vars, loop_vars>>

\* The next write_byte of the call in progress; after the last one the
\* call saves the value to the cache and returns
FramWriteByte ==
    /\ fram_call # None
    /\ LET c == Get(fram_call)
           b == Head(c.todo)
           rest == Tail(c.todo)
       IN  /\ fram' = write_byte(fram, b.offset, b.byte)
           /\ committed' =
                IF c.op # "clear" /\ b.offset = Offset(c.field)
                   /\ b.byte = VALID
                THEN [committed EXCEPT ![c.field] = Values(c.field, c.value)]
                ELSE committed
           /\ IF rest # <<>>
              THEN /\ fram_call' = Some([c EXCEPT !.todo = rest,
                                                  !.done = c.done + 1])
                   /\ UNCHANGED <<cache, fram_ret, torn>>
              ELSE /\ fram_call' = None
                   /\ cache' = IF c.op = "clear" THEN cache
                               ELSE [cache EXCEPT ![c.field] =
                                        cache_saved(@, c.value)]
                   /\ fram_ret' = Some(Returned(c.op, c.field,
                                    IF c.op = "write" THEN Some(c.value)
                                    ELSE None,
                                    IF c.op = "read" THEN cache'[c.field]
                                    ELSE None))
                   /\ torn' = IF c.op = "clear" THEN torn
                              ELSE [torn EXCEPT ![c.field] = FALSE]
    /\ UNCHANGED <<fram_ops, unacked, clock_vars, queue_vars, race_vars,
                   sm_vars,
                   button_vars, loop_vars>>

\* The next write_byte of the call in progress gets fewer than three
\* acknowledgements: the FRAM does not take the byte, write_byte prints
\* and returns True, and _write_value and write_* go on as after any
\* write_byte
FramWriteByteNotAcknowledged ==
    /\ fram_call # None
    /\ unacked < MaxUnacked
    /\ unacked' = unacked + 1
    /\ LET c == Get(fram_call)
           rest == Tail(c.todo)
       IN  IF rest # <<>>
           THEN /\ fram_call' = Some([c EXCEPT !.todo = rest,
                                               !.done = c.done + 1])
                /\ UNCHANGED <<cache, fram_ret, torn>>
           ELSE /\ fram_call' = None
                /\ cache' = IF c.op = "clear" THEN cache
                            ELSE [cache EXCEPT ![c.field] =
                                     cache_saved(@, c.value)]
                /\ fram_ret' = Some(Returned(c.op, c.field,
                                 IF c.op = "write" THEN Some(c.value)
                                 ELSE None,
                                 IF c.op = "read" THEN cache'[c.field]
                                 ELSE None))
                /\ torn' = IF c.op = "clear" THEN torn
                           ELSE [torn EXCEPT ![c.field] = FALSE]
    /\ UNCHANGED <<fram, committed, fram_ops, clock_vars, queue_vars, race_vars,
                   sm_vars,
                   button_vars, loop_vars>>

\* Power is lost and the program starts again: the FRAM keeps its bytes,
\* the RaFRAM object is new (RaFRAM.__init__), a call in progress is gone
PowerCut ==
    /\ fram_ops < MaxFramOps
    /\ fram_ops' = fram_ops + 1
    /\ cache' = [f \in Records |-> None]
    /\ fram_call' = None
    /\ fram_ret' = None
    /\ torn' = IF /\ fram_call # None
                  /\ Get(fram_call).op # "clear"
                  /\ Get(fram_call).done >= 1
                  /\ fram[Offset(Get(fram_call).field)] = INVALID
               THEN [torn EXCEPT ![Get(fram_call).field] = TRUE]
               ELSE torn
    /\ UNCHANGED <<fram, committed, unacked, clock_vars, queue_vars,
                   race_vars, sm_vars,
                   button_vars, loop_vars>>

-----------------------------------------------------------------------------
(* CommandQueue *)

CMD_BUTTON_1 == 1
CMD_BUTTON_2 == 2
CMD_BUTTON_2_LONG == 22
CMD_BUTTON_3 == 3
CMD_BUTTON_4 == 4
CMD_BUTTON_4_LONG == 44
CMD_TICK == 10

Commands == {CMD_BUTTON_1, CMD_BUTTON_2, CMD_BUTTON_2_LONG, CMD_BUTTON_3,
             CMD_BUTTON_4, CMD_BUTTON_4_LONG, CMD_TICK}

\* CommandQueue._queue_size
queue_size == 1

\* CommandQueue.members
members(q) == Len(q)

\* A faulty variant of put: the new command replaces what is queued
put_last_wins(q, command) == <<command>>

\* CommandQueue.put: the queue it leaves
put(q, command) == IF Len(q) < queue_size THEN Append(q, command) ELSE q

\* A faulty variant of get: the command returned stays in the queue
get_and_keep(q) ==
    IF members(q) # 0
    THEN [ret |-> Some(Head(q)), queue |-> q]
    ELSE [ret |-> None, queue |-> q]

\* CommandQueue.get: the command returned (None when there is none) and
\* the queue it leaves
get(q) ==
    IF members(q) # 0
    THEN [ret |-> Some(Head(q)), queue |-> Tail(q)]
    ELSE [ret |-> None, queue |-> q]

\* queue_log keeps the latest QueueLogLen calls
Logged(entry) ==
    LET all == Append(queue_log, entry)
    IN  IF Len(all) > QueueLogLen THEN Tail(all) ELSE all

\* A button or timer callback calls _COMMAND_QUEUE.put(command)
Put(command) ==
    /\ queue' = put(queue, command)
    /\ queue_log' = Logged([op |-> "put", command |-> Some(command),
                            pre |-> queue, post |-> queue'])
    /\ UNCHANGED <<clock_vars, fram_vars, race_vars, sm_vars,
                   button_vars, loop_vars>>

\* The main loop calls _COMMAND_QUEUE.get()
GetCmd ==
    /\ queue' = get(queue).queue
    /\ queue_log' = Logged([op |-> "get", command |-> get(queue).ret,
                            pre |-> queue, post |-> queue'])
    /\ UNCHANGED <<clock_vars, fram_vars, race_vars, sm_vars,
                   button_vars, loop_vars>>

-----------------------------------------------------------------------------
(* The callbacks and the main loop on the CommandQueue, statement by      *)
(* statement: put is a length check and then an append, get is a call of  *)
(* members() and then a pop(0); nothing in the source keeps a callback    *)
(* from running between the two.                                           *)

\* Bound of the model: the put calls callbacks begin
MaxPuts == 4

Callbacks == {"btn_1", "btn_2", "btn_3", "btn_4", "tick"}

\* The commands a callback puts
CallbackCommands(p) ==
    CASE p = "btn_1" -> {CMD_BUTTON_1}
      [] p = "btn_2" -> {CMD_BUTTON_2, CMD_BUTTON_2_LONG}
      [] p = "btn_3" -> {CMD_BUTTON_3}
      [] p = "btn_4" -> {CMD_BUTTON_4, CMD_BUTTON_4_LONG}
      [] p = "tick" -> {CMD_TICK}

\* 'if len(self._queue) < self._queue_size' of put
put_has_room(q) == Len(q) < queue_size

\* A callback runs put up to its append: the length check
PutCheck(p, command) ==
    /\ handler[p] = None
    /\ puts < MaxPuts
    /\ puts' = puts + 1
    /\ handler' = IF put_has_room(queue)
                  THEN [handler EXCEPT ![p] = Some(command)]
                  ELSE handler
    /\ UNCHANGED <<queue_vars, getter, appended, delivered>>
    /\ UNCHANGED <<clock_vars, fram_vars, sm_vars,
                   button_vars, loop_vars>>

\* 'self._queue.append(command)' of a put that passed its check
PutAppend(p) ==
    /\ handler[p] # None
    /\ queue' = Append(queue, Get(handler[p]))
    /\ handler' = [handler EXCEPT ![p] = None]
    /\ appended' = appended + 1
    /\ UNCHANGED <<queue_log, getter, puts, delivered>>
    /\ UNCHANGED <<clock_vars, fram_vars, sm_vars,
                   button_vars, loop_vars>>

\* The main loop runs get up to its pop: 'if self.members()'; with no
\* member get returns None
GetMembers ==
    /\ getter = "members"
    /\ getter' = IF members(queue) # 0 THEN "pop" ELSE "members"
    /\ UNCHANGED <<queue_vars, handler, puts, appended, delivered>>
    /\ UNCHANGED <<clock_vars, fram_vars, sm_vars,
                   button_vars, loop_vars>>

\* 'return self._queue.pop(0)' of get
GetPop ==
    /\ getter = "pop"
    /\ queue # <<>>
    /\ queue' = Tail(queue)
    /\ delivered' = delivered + 1
    /\ getter' = "members"
    /\ UNCHANGED <<queue_log, handler, puts, appended>>
    /\ UNCHANGED <<clock_vars, fram_vars, sm_vars,
                   button_vars, loop_vars>>

-----------------------------------------------------------------------------
(* The button handlers btn_1, btn_2, btn_3 and btn_4 *)

Buttons == 1..4

\* _LONG_BUTTON_PRESS_MS
LONG_BUTTON_PRESS_MS == 2000

\* _BUTTON_DEBOUNCE_MS
BUTTON_DEBOUNCE_MS == 50

\* Button edges handled in one behaviour
MaxEdges == 3

\* The values of duration tried: the shortest the loop can measure and
\* those around the threshold
HeldDurations ==
    {BUTTON_DEBOUNCE_MS, LONG_BUTTON_PRESS_MS - 1, LONG_BUTTON_PRESS_MS,
     LONG_BUTTON_PRESS_MS + 1}

\* The buttons whose handlers measure the time pressed: btn_2 and btn_4
Measured == {2, 4}

\* The command a handler puts for a press that is not a long one
short_command(b) ==
    CASE b = 1 -> CMD_BUTTON_1
      [] b = 2 -> CMD_BUTTON_2
      [] b = 3 -> CMD_BUTTON_3
      [] b = 4 -> CMD_BUTTON_4

\* The command btn_2 and btn_4 put for a long press
long_command(b) == IF b = 2 THEN CMD_BUTTON_2_LONG ELSE CMD_BUTTON_4_LONG

\* A faulty variant of long_press: a press of exactly the threshold is
\* a short one
long_press_above(duration) == duration > LONG_BUTTON_PRESS_MS

\* btn_2 and btn_4: duration >= _LONG_BUTTON_PRESS_MS
long_press(duration) == duration >= LONG_BUTTON_PRESS_MS

\* The command the handler of button b puts, r its record
command_of(b, r) ==
    IF b \in Measured /\ long_press(Get(r.duration))
    THEN long_command(b)
    ELSE short_command(b)

\* A faulty variant of btn: the interrupt is set again before the put
btn_rearm_first(b, level) ==
    IF ~level
    THEN <<"irq_off", "debounce", "irq_on">>
    ELSE IF b \in Measured
         THEN <<"irq_off", "debounce", "held", "irq_on", "put">>
         ELSE <<"irq_off", "debounce", "irq_on", "put">>

\* The statements btn_b runs, in order, when pin.value() gives level
\* after the debounce: "irq_off" is pin.irq(handler=None), "debounce"
\* the sleep and the test of pin.value(), "held" the loop that waits for
\* the release and the measurement of duration, "put" the call of
\* _COMMAND_QUEUE.put, "irq_on" pin.irq(trigger=Pin.IRQ_RISING, ...)
btn(b, level) ==
    IF ~level
    THEN <<"irq_off", "debounce", "irq_on">>
    ELSE IF b \in Measured
         THEN <<"irq_off", "debounce", "held", "put", "irq_on">>
         ELSE <<"irq_off", "debounce", "put", "irq_on">>

\* The statement the handler of button b runs next
Statement(b) ==
    IF button[b].pc = 0 THEN "none" ELSE btn(b, button[b].level)[button[b].pc]

\* The record of button b once its handler has run one more statement
Ran(b) ==
    [button[b] EXCEPT
        !.pc = IF @ = Len(btn(b, button[b].level)) THEN 0 ELSE @ + 1,
        !.did = Append(@, Statement(b))]

\* A rising edge on the pin of button b while its interrupt is set:
\* the handler is entered
Pressed(b) ==
    /\ button[b].pc = 0
    /\ button[b].irq
    /\ edges < MaxEdges
    /\ edges' = edges + 1
    /\ \E level \in BOOLEAN :
          button' = [button EXCEPT ![b] =
                        [irq |-> TRUE, pc |-> 1, level |-> level,
                         duration |-> None, sent |-> None, did |-> <<>>]]
    /\ UNCHANGED <<clock_vars, fram_vars, queue_vars, race_vars, sm_vars,
                   loop_vars>>

\* pin.irq(handler=None)
IrqOff(b) ==
    /\ Statement(b) = "irq_off"
    /\ button' = [button EXCEPT ![b] = [Ran(b) EXCEPT !.irq = FALSE]]
    /\ UNCHANGED <<edges, clock_vars, fram_vars, queue_vars, race_vars,
                   sm_vars, loop_vars>>

\* time.sleep_ms(_BUTTON_DEBOUNCE_MS) and the test of pin.value()
Debounce(b) ==
    /\ Statement(b) = "debounce"
    /\ button' = [button EXCEPT ![b] = Ran(b)]
    /\ UNCHANGED <<edges, clock_vars, fram_vars, queue_vars, race_vars,
                   sm_vars, loop_vars>>

\* btn_2 and btn_4: the button is released and duration is measured
Held(b) ==
    /\ Statement(b) = "held"
    /\ \E duration \in HeldDurations :
          button' = [button EXCEPT ![b] =
                        [Ran(b) EXCEPT !.duration = Some(duration)]]
    /\ UNCHANGED <<edges, clock_vars, fram_vars, queue_vars, race_vars,
                   sm_vars, loop_vars>>

\* _COMMAND_QUEUE.put of the command the handler has chosen
PutCommand(b) ==
    /\ Statement(b) = "put"
    /\ LET command == command_of(b, button[b])
       IN  /\ queue' = put(queue, command)
           /\ queue_log' = Logged([op |-> "put", command |-> Some(command),
                                   pre |-> queue, post |-> queue'])
           /\ button' = [button EXCEPT ![b] =
                            [Ran(b) EXCEPT !.sent = Some(command)]]
    /\ UNCHANGED <<edges, clock_vars, fram_vars, race_vars, sm_vars,
                   loop_vars>>

\* pin.irq(trigger=Pin.IRQ_RISING, handler=btn_b)
IrqOn(b) ==
    /\ Statement(b) = "irq_on"
    /\ button' = [button EXCEPT ![b] = [Ran(b) EXCEPT !.irq = TRUE]]
    /\ UNCHANGED <<edges, clock_vars, fram_vars, queue_vars, race_vars,
                   sm_vars, loop_vars>>

-----------------------------------------------------------------------------
(* StateMachine: the program-mode value *)

S_IDLE == 0
S_DISPLAY_RA == 1
S_DISPLAY_RA_TARGET == 2
S_DISPLAY_CLOCK == 3
S_DISPLAY_C_DATE == 4
S_PROGRAM_RA_TARGET_H == 5
S_PROGRAM_RA_TARGET_M == 6
S_PROGRAM_CLOCK == 7
S_PROGRAM_C_DAY == 8
S_PROGRAM_C_MONTH == 9

HOLD_TICKS == 8

\* _MONTH_NAME[month], month 1..12 (the unused entry 'xx' is left out)
MONTH_NAME ==
    <<<<"J", "a">>, <<"F", "e">>, <<"M", "c">>, <<"A", "p">>, <<"M", "a">>,
      <<"J", "n">>, <<"J", "u">>, <<"A", "u">>, <<"S", "e">>, <<"O", "c">>,
      <<"N", "o">>, <<"D", "e">>>>

\* _MONTH_NAME.index(s); 0 is the index of 'xx', -1 stands for ValueError
MonthIndex(s) ==
    IF s = <<"x", "x">> THEN 0
    ELSE IF \E i \in 1..12 : MONTH_NAME[i] = s
    THEN CHOOSE i \in 1..12 : MONTH_NAME[i] = s
    ELSE -1

\* value[:2] and value[2:]
Left(value) == SubSeq(value, 1, IF Len(value) < 2 THEN Len(value) ELSE 2)
Right(value) == SubSeq(value, 3, Len(value))

\* A faulty variant of Min: the day is kept as it is
min_day_kept(a, b) == b

\* min of two numbers
Min(a, b) == IF a < b THEN a ELSE b

\* StateMachine._program_up raises: an int() or index() fails, or
\* 'assert month >= 1' does
program_raises(st, value) ==
    IF st \in {S_PROGRAM_CLOCK, S_PROGRAM_RA_TARGET_H, S_PROGRAM_RA_TARGET_M}
    THEN int(Left(value)) < 0 \/ int(Right(value)) < 0
    ELSE IF st = S_PROGRAM_C_MONTH
    THEN int(Left(value)) < 0 \/ MonthIndex(Right(value)) < 1
    ELSE IF st = S_PROGRAM_C_DAY
    THEN int(Left(value)) < 0 \/ MonthIndex(Right(value)) < 0
    ELSE FALSE

\* A faulty variant of program_up: the minute of the RA target rolls over
\* into its hour as the minute of the clock does
program_up_rollover(st, value) ==
    LET hour == int(Left(value))
        minute == int(Right(value))
        day == int(Left(value))
        month == MonthIndex(Right(value))
    IN  CASE st \in {S_PROGRAM_CLOCK, S_PROGRAM_RA_TARGET_M} ->
               IF minute + 1 > 59
               THEN Fmt02d(IF hour + 1 > 23 THEN 0 ELSE hour + 1)
                    \o Fmt02d(0)
               ELSE Fmt02d(hour) \o Fmt02d(minute + 1)
          [] st = S_PROGRAM_RA_TARGET_H ->
               Fmt02d(IF hour + 1 > 23 THEN 0 ELSE hour + 1)
               \o Fmt02d(minute)
          [] st = S_PROGRAM_C_MONTH ->
               LET next == IF month + 1 > 12 THEN 1 ELSE month + 1
               IN  Fmt2d(Min(DAYS[next], day)) \o MONTH_NAME[next]
          [] st = S_PROGRAM_C_DAY ->
               Fmt2d(IF day + 1 > DAYS[month] THEN 1 ELSE day + 1)
               \o MONTH_NAME[month]
          [] OTHER -> value

\* StateMachine._program_up: the new _programming_value
program_up(st, value) ==
    LET hour == int(Left(value))
        minute == int(Right(value))
        day == int(Left(value))
        month == MonthIndex(Right(value))
    IN  CASE st = S_PROGRAM_CLOCK ->
               IF minute + 1 > 59
               THEN Fmt02d(IF hour + 1 > 23 THEN 0 ELSE hour + 1)
                    \o Fmt02d(0)
               ELSE Fmt02d(hour) \o Fmt02d(minute + 1)
          [] st = S_PROGRAM_RA_TARGET_H ->
               Fmt02d(IF hour + 1 > 23 THEN 0 ELSE hour + 1)
               \o Fmt02d(minute)
          [] st = S_PROGRAM_RA_TARGET_M ->
               Fmt02d(hour) \o Fmt02d(IF minute + 1 > 59 THEN 0
                                      ELSE minute + 1)
          [] st = S_PROGRAM_C_MONTH ->
               LET next == IF month + 1 > 12 THEN 1 ELSE month + 1
               IN  Fmt2d(Min(DAYS[next], day)) \o MONTH_NAME[next]
          [] st = S_PROGRAM_C_DAY ->
               Fmt2d(IF day + 1 > DAYS[month] THEN 1 ELSE day + 1)
               \o MONTH_NAME[month]
          [] OTHER -> value

\* A faulty variant of program_down: the minute of the clock wraps without
\* the hour moving back
program_down_no_borrow(st, value) ==
    LET hour == int(Left(value))
        minute == int(Right(value))
        day == int(Left(value))
        month == MonthIndex(Right(value))
    IN  CASE st \in {S_PROGRAM_CLOCK, S_PROGRAM_RA_TARGET_M} ->
               Fmt02d(hour) \o Fmt02d(IF minute - 1 < 0 THEN 59
                                      ELSE minute - 1)
          [] st = S_PROGRAM_RA_TARGET_H ->
               Fmt2d(IF hour - 1 < 0 THEN 23 ELSE hour - 1)
               \o Fmt02d(minute)
          [] st = S_PROGRAM_C_MONTH ->
               LET next == IF month - 1 < 1 THEN 12 ELSE month - 1
               IN  Fmt2d(Min(DAYS[next], day)) \o MONTH_NAME[next]
          [] st = S_PROGRAM_C_DAY ->
               Fmt2d(IF day - 1 < 1 THEN DAYS[month] ELSE day - 1)
               \o MONTH_NAME[month]
          [] OTHER -> value

\* StateMachine._program_down: the new _programming_value; the RA hour
\* is formatted '2d', the other numbers of a time '02d'
program_down(st, value) ==
    LET hour == int(Left(value))
        minute == int(Right(value))
        day == int(Left(value))
        month == MonthIndex(Right(value))
    IN  CASE st = S_PROGRAM_CLOCK ->
               IF minute - 1 < 0
               THEN Fmt02d(IF hour - 1 < 0 THEN 23 ELSE hour - 1)
                    \o Fmt02d(59)
               ELSE Fmt02d(hour) \o Fmt02d(minute - 1)
          [] st = S_PROGRAM_RA_TARGET_H ->
               Fmt2d(IF hour - 1 < 0 THEN 23 ELSE hour - 1)
               \o Fmt02d(minute)
          [] st = S_PROGRAM_RA_TARGET_M ->
               Fmt02d(hour) \o Fmt02d(IF minute - 1 < 0 THEN 59
                                      ELSE minute - 1)
          [] st = S_PROGRAM_C_MONTH ->
               LET next == IF month - 1 < 1 THEN 12 ELSE month - 1
               IN  Fmt2d(Min(DAYS[next], day)) \o MONTH_NAME[next]
          [] st = S_PROGRAM_C_DAY ->
               Fmt2d(IF day - 1 < 1 THEN DAYS[month] ELSE day - 1)
               \o MONTH_NAME[month]
          [] OTHER -> value

-----------------------------------------------------------------------------
(* StateMachine: process_command.  The operators below take and return a  *)
(* record of the fields of the StateMachine and of the objects it calls   *)
(* (display, RaFRAM, RTC), with what the call did: the result returned,   *)
(* whether an exception was raised, and the write_* and set_brightness    *)
(* calls made.                                                             *)

Self ==
    [state |-> state, to_idle_countdown |-> to_idle_countdown,
     brightness |-> brightness, display_brightness |-> display_brightness,
     timer |-> timer, programming |-> programming,
     programming_left |-> programming_left,
     programming_right |-> programming_right,
     programming_left_on |-> programming_left_on,
     programming_right_on |-> programming_right_on,
     programming_state |-> programming_state,
     programming_value |-> programming_value,
     ra_target |-> ra_target, calibration_date |-> calibration_date,
     rtc |-> rtc, display |-> display,
     fram |-> fram, cache |-> cache,
     result |-> TRUE, raised |-> FALSE, writes |-> <<>>,
     set_brightness |-> <<>>]

\* An exception leaves process_command: the main loop's result stays False
Raise(s) == [s EXCEPT !.raised = TRUE, !.result = FALSE]

RECURSIVE write_bytes(_, _)
\* The FRAM after the write_byte calls of todo, in order
write_bytes(mem, todo) ==
    IF todo = <<>> THEN mem
    ELSE write_bytes(write_byte(mem, Head(todo).offset, Head(todo).byte),
                     Tail(todo))

\* A faulty variant of fram_write: the value reaches the cache and not the
\* FRAM
fram_write_cache_only(s, f, v) ==
    [s EXCEPT !.cache = [@ EXCEPT ![f] = Some(v)],
              !.writes = Append(@, [field |-> f, value |-> v])]

\* write_brightness, write_ra_target, write_calibration_date, run to the end
fram_write(s, f, v) ==
    IF f = "brightness" /\ (v < MIN_BRIGHTNESS \/ v > MAX_BRIGHTNESS)
    THEN Raise(s)
    ELSE [s EXCEPT !.fram = write_bytes(@, write_value(Offset(f),
                                                      Values(f, v))),
                   !.cache = [@ EXCEPT ![f] = cache_saved(@, v)],
                   !.writes = Append(@, [field |-> f, value |-> v])]

\* read_brightness, read_ra_target, read_calibration_date, run to the end:
\* the record after the call, the value returned is its cache[f]
fram_read(s, f) ==
    IF Truthy(f, s.cache[f]) THEN s
    ELSE IF is_value_valid(s.fram, Offset(f))
    THEN [s EXCEPT !.cache = [@ EXCEPT ![f] = Some(FromValues(f,
                        read_values(s.fram, Offset(f), PayloadLength(f))))]]
    ELSE fram_write(s, f, Default(f))

\* RaDisplay.show
display_show(s, value) ==
    IF Len(value) # 4 THEN Raise(s)
    ELSE [s EXCEPT !.display = show(value, @)]

\* A faulty variant of display_clear: both sides are cleared
display_clear_both(s, left, right) == [s EXCEPT !.display = Blank]

\* RaDisplay.clear(left, right)
display_clear(s, left, right) ==
    [s EXCEPT !.display = [l |-> IF left THEN Blank.l ELSE @.l,
                           r |-> IF right THEN Blank.r ELSE @.r]]

\* A faulty variant of display_set_brightness: the display keeps its
\* brightness
display_set_brightness_not_pushed(s, b) ==
    [s EXCEPT !.set_brightness = Append(@, b)]

\* RaDisplay.set_brightness
display_set_brightness(s, b) ==
    IF b < MIN_BRIGHTNESS \/ b > MAX_BRIGHTNESS THEN Raise(s)
    ELSE [s EXCEPT !.display_brightness = b,
                   !.set_brightness = Append(@, b)]

clear_program_mode(s) ==
    [s EXCEPT !.programming = FALSE, !.programming_value = None]

\* A faulty variant of start_timer: the countdown is set without the test
\* of to_idle
start_timer_always_to_idle(s, to_idle) ==
    [s EXCEPT !.timer = TRUE, !.to_idle_countdown = HOLD_TICKS]

\* StateMachine._start_timer
start_timer(s, to_idle) ==
    [s EXCEPT !.timer = TRUE,
              !.to_idle_countdown = IF to_idle THEN HOLD_TICKS ELSE @]

stop_timer(s) == [s EXCEPT !.timer = FALSE, !.to_idle_countdown = 0]

\* A faulty variant of to_idle: the timer is left running
to_idle_timer_running(s) ==
    [display_clear([clear_program_mode(s) EXCEPT !.state = S_IDLE],
                   TRUE, TRUE) EXCEPT !.to_idle_countdown = 0]

\* StateMachine._to_idle
to_idle(s) ==
    stop_timer(display_clear([clear_program_mode(s) EXCEPT !.state = S_IDLE],
                             TRUE, TRUE))

\* A faulty variant of display_entered: program mode is not cleared
display_entered_in_program_mode(s, st) ==
    start_timer([s EXCEPT !.state = st], TRUE)

\* A faulty variant of display_entered: the countdown is not set
display_entered_no_countdown(s, st) ==
    start_timer([clear_program_mode(s) EXCEPT !.state = st], FALSE)

\* The start of each _to_display_*: program mode cleared, the state set,
\* the timer started with the countdown to idle
display_entered(s, st) ==
    start_timer([clear_program_mode(s) EXCEPT !.state = st], TRUE)

to_display_ra(s) ==
    LET a == display_entered(s, S_DISPLAY_RA)
        out == show_ra(a.ra_target, a.calibration_date, a.rtc)
    IN  IF out.raised THEN Raise(a) ELSE display_show(a, out.scope_ra)

to_display_ra_target(s) ==
    LET a == display_entered(s, S_DISPLAY_RA_TARGET)
    IN  display_show(a, Fmt02d(a.ra_target.h) \o Fmt02d(a.ra_target.m))

\* show_time() without arguments shows the RTC's hour and minute
to_display_clock(s) ==
    LET a == display_entered(s, S_DISPLAY_CLOCK)
    IN  display_show(a, Fmt02d(a.rtc.h) \o Fmt02d(a.rtc.m))

to_display_calibration_date(s) ==
    LET a == display_entered(s, S_DISPLAY_C_DATE)
    IN  display_show(a, Fmt2d(a.calibration_date.d)
                        \o MONTH_NAME[a.calibration_date.m])

\* 'if not self._programming_value': None or the empty string
NoValue(v) == v = None \/ Get(v) = <<>>

\* A faulty variant of program_entered: the state to go back to is not
\* recorded
program_entered_no_way_back(s, st, left, right, back) ==
    start_timer([s EXCEPT !.state = st,
                          !.to_idle_countdown = 0,
                          !.programming = TRUE,
                          !.programming_left = left,
                          !.programming_right = right,
                          !.programming_left_on = TRUE,
                          !.programming_right_on = TRUE], FALSE)

\* The start of _to_program_ra_target_h, _to_program_clock and
\* _to_program_calibration_day: the state, no countdown, program mode
\* set with the sides to flash, the state to go back to, the timer
program_entered(s, st, left, right, back) ==
    start_timer([s EXCEPT !.state = st,
                          !.to_idle_countdown = 0,
                          !.programming = TRUE,
                          !.programming_left = left,
                          !.programming_right = right,
                          !.programming_left_on = TRUE,
                          !.programming_right_on = TRUE,
                          !.programming_state = back], FALSE)

\* With the value to program set, it is shown
program_value_shown(s, value) ==
    display_show([s EXCEPT !.programming_value = Some(value)], value)

to_program_ra_target_h(s) ==
    LET a == program_entered(s, S_PROGRAM_RA_TARGET_H, TRUE, FALSE,
                             S_DISPLAY_RA_TARGET)
        b == fram_read(a, "ra_target")
        t == Get(b.cache["ra_target"])
    IN  IF ~NoValue(a.programming_value) THEN a
        ELSE IF b.raised THEN b
        ELSE program_value_shown(b, Fmt02d(t.h) \o Fmt02d(t.m))

\* A faulty variant of to_program_ra_target_m: the value to program is
\* taken from the stored RA target again
to_program_ra_target_m_reseeded(s) ==
    [s EXCEPT !.state = S_PROGRAM_RA_TARGET_M,
              !.programming_left = FALSE, !.programming_right = TRUE,
              !.programming_value = Some(Fmt02d(s.ra_target.h)
                                         \o Fmt02d(s.ra_target.m))]

\* StateMachine._to_program_ra_target_m
to_program_ra_target_m(s) ==
    [s EXCEPT !.state = S_PROGRAM_RA_TARGET_M,
              !.programming_left = FALSE, !.programming_right = TRUE]

to_program_clock(s) ==
    LET a == program_entered(s, S_PROGRAM_CLOCK, TRUE, TRUE, S_DISPLAY_CLOCK)
    IN  program_value_shown(a, Fmt02d(a.rtc.h) \o Fmt02d(a.rtc.m))

to_program_calibration_day(s) ==
    LET a == program_entered(s, S_PROGRAM_C_DAY, TRUE, FALSE,
                             S_DISPLAY_C_DATE)
        b == fram_read(a, "calibration_date")
        c == Get(b.cache["calibration_date"])
    IN  IF ~NoValue(a.programming_value) THEN a
        ELSE IF b.raised THEN b
        ELSE program_value_shown(b, Fmt2d(c.d) \o MONTH_NAME[c.m])

to_program_calibration_month(s) ==
    [s EXCEPT !.state = S_PROGRAM_C_MONTH,
              !.programming_left = FALSE, !.programming_right = TRUE]

\* process_command(_CMD_TICK)
on_tick(s) ==
    IF s.state = S_IDLE THEN s
    ELSE IF s.to_idle_countdown # 0
    THEN IF s.to_idle_countdown - 1 = 0
         THEN to_idle([s EXCEPT !.to_idle_countdown = 0])
         ELSE [s EXCEPT !.to_idle_countdown = @ - 1]
    ELSE IF ~s.programming THEN s
    ELSE IF NoValue(s.programming_value) THEN Raise(s)
    ELSE LET a == display_show(s, Get(s.programming_value))
             b == IF ~a.programming_left THEN a
                  ELSE IF a.programming_left_on
                  THEN [display_clear(a, TRUE, FALSE)
                            EXCEPT !.programming_left_on = FALSE]
                  ELSE [a EXCEPT !.programming_left_on = TRUE]
             c == IF ~b.programming_right THEN b
                  ELSE IF b.programming_right_on
                  THEN [display_clear(b, FALSE, TRUE)
                            EXCEPT !.programming_right_on = FALSE]
                  ELSE [b EXCEPT !.programming_right_on = TRUE]
         IN  IF a.raised THEN a ELSE c

\* process_command(_CMD_BUTTON_1), the "DISPLAY" button
on_button_1(s) ==
    CASE s.state = S_IDLE -> to_display_ra(s)
      [] s.state = S_DISPLAY_RA -> to_display_ra_target(s)
      [] s.state = S_DISPLAY_RA_TARGET -> to_display_clock(s)
      [] s.state = S_DISPLAY_CLOCK -> to_display_calibration_date(s)
      [] s.state = S_DISPLAY_C_DATE -> to_display_ra(s)
      [] OTHER ->
           IF ~s.programming THEN s
           ELSE LET a == [s EXCEPT !.programming = FALSE]
                IN  CASE s.programming_state = S_DISPLAY_RA_TARGET ->
                           to_display_ra_target(a)
                      [] s.programming_state = S_DISPLAY_CLOCK ->
                           to_display_clock(a)
                      [] s.programming_state = S_DISPLAY_C_DATE ->
                           to_display_calibration_date(a)
                      [] OTHER -> a

\* A faulty variant of on_button_2: DisplayRa is taken for a state to
\* enter program mode from
on_button_2_from_display_ra(s) ==
    CASE s.state \in {S_DISPLAY_RA, S_DISPLAY_RA_TARGET} ->
           to_program_ra_target_h(s)
      [] s.state = S_DISPLAY_CLOCK -> to_program_clock(s)
      [] s.state = S_DISPLAY_C_DATE -> to_program_calibration_day(s)
      [] s.state = S_PROGRAM_RA_TARGET_H -> to_program_ra_target_m(s)
      [] s.state = S_PROGRAM_RA_TARGET_M -> to_program_ra_target_h(s)
      [] s.state = S_PROGRAM_C_DAY -> to_program_calibration_month(s)
      [] s.state = S_PROGRAM_C_MONTH -> to_program_calibration_day(s)
      [] OTHER -> s

\* process_command(_CMD_BUTTON_2), the "PROGRAM" button
on_button_2(s) ==
    CASE s.state = S_DISPLAY_RA_TARGET -> to_program_ra_target_h(s)
      [] s.state = S_DISPLAY_CLOCK -> to_program_clock(s)
      [] s.state = S_DISPLAY_C_DATE -> to_program_calibration_day(s)
      [] s.state = S_PROGRAM_RA_TARGET_H -> to_program_ra_target_m(s)
      [] s.state = S_PROGRAM_RA_TARGET_M -> to_program_ra_target_h(s)
      [] s.state = S_PROGRAM_C_DAY -> to_program_calibration_month(s)
      [] s.state = S_PROGRAM_C_MONTH -> to_program_calibration_day(s)
      [] OTHER -> s

\* 'rtc.h = hour' on the RealTimeClock that datetime() returned: a
\* namedtuple takes no attribute assignment, AttributeError is raised
\* before 'rtc.m = minute', 'rtc.s = 0' and self._rtc.datetime(rtc)
rtc_assigned(s, hour, minute) == Raise(s)

\* process_command(_CMD_BUTTON_2_LONG), the program button held
on_button_2_long(s) ==
    IF ~s.programming THEN s
    ELSE IF NoValue(s.programming_value) THEN Raise(s)
    ELSE LET value == Get(s.programming_value)
             n == int(Left(value))
             m == int(Right(value))
             month == MonthIndex(Right(value))
         IN  CASE s.state \in {S_PROGRAM_RA_TARGET_H,
                               S_PROGRAM_RA_TARGET_M} ->
                    IF n < 0 \/ m < 0 THEN Raise(s)
                    ELSE LET a == fram_write(
                                    [s EXCEPT !.ra_target = [h |-> n,
                                                             m |-> m]],
                                    "ra_target", [h |-> n, m |-> m])
                         IN  IF a.raised THEN a ELSE to_display_ra(a)
               [] s.state = S_PROGRAM_CLOCK ->
                    IF n < 0 \/ m < 0 THEN Raise(s)
                    ELSE rtc_assigned(s, n, m)
               [] s.state \in {S_PROGRAM_C_MONTH, S_PROGRAM_C_DAY} ->
                    IF n < 0 \/ month < 1 THEN Raise(s)
                    ELSE LET a == fram_write(
                                    [s EXCEPT !.calibration_date =
                                                  [d |-> n, m |-> month]],
                                    "calibration_date",
                                    [d |-> n, m |-> month])
                         IN  IF a.raised THEN a
                             ELSE to_display_calibration_date(a)
               [] OTHER -> s

\* The program-mode branch of the "DOWN" and "UP" buttons
programmed(s, value) ==
    IF NoValue(s.programming_value)
       \/ program_raises(s.state, Get(s.programming_value))
    THEN Raise(s)
    ELSE [s EXCEPT !.programming_value = Some(value)]

\* A faulty variant of brightness_changed: the countdown is left running
brightness_changed_no_countdown(s, b) ==
    IF b = s.brightness THEN s
    ELSE display_set_brightness(
             fram_write([s EXCEPT !.brightness = b], "brightness", b), b)

\* The brightness branch of the "DOWN" and "UP" buttons: the countdown is
\* set again, a changed brightness is written and set
brightness_changed(s, b) ==
    LET a == [s EXCEPT !.to_idle_countdown = HOLD_TICKS]
        w == fram_write([a EXCEPT !.brightness = b], "brightness", b)
    IN  IF b = s.brightness THEN a
        ELSE IF w.raised THEN w
        ELSE display_set_brightness(w, b)

\* process_command(_CMD_BUTTON_3), the "DOWN" button
on_button_3(s) ==
    IF s.state = S_IDLE THEN s
    ELSE IF s.programming
    THEN programmed(s, program_down(s.state, Get(s.programming_value)))
    ELSE brightness_changed(s, IF s.brightness > MIN_BRIGHTNESS
                               THEN s.brightness - 1 ELSE s.brightness)

\* A faulty variant of on_button_4: the brightness is raised without the
\* test against _MAX_BRIGHTNESS
on_button_4_no_limit(s) ==
    IF s.state = S_IDLE THEN s
    ELSE IF s.programming
    THEN programmed(s, program_up(s.state, Get(s.programming_value)))
    ELSE brightness_changed(s, s.brightness + 1)

\* process_command(_CMD_BUTTON_4), the "UP" button
on_button_4(s) ==
    IF s.state = S_IDLE THEN s
    ELSE IF s.programming
    THEN programmed(s, program_up(s.state, Get(s.programming_value)))
    ELSE brightness_changed(s, IF s.brightness < MAX_BRIGHTNESS
                               THEN s.brightness + 1 ELSE s.brightness)

\* A faulty variant of process_command: _CMD_BUTTON_4_LONG is taken for a
\* short press of the button
process_command_no_kill(s, command) ==
    CASE command = CMD_TICK -> on_tick(s)
      [] command = CMD_BUTTON_1 -> on_button_1(s)
      [] command = CMD_BUTTON_2 -> on_button_2(s)
      [] command = CMD_BUTTON_2_LONG -> on_button_2_long(s)
      [] command = CMD_BUTTON_3 -> on_button_3(s)
      [] command \in {CMD_BUTTON_4, CMD_BUTTON_4_LONG} -> on_button_4(s)
      [] OTHER -> [s EXCEPT !.result = FALSE]

\* StateMachine.process_command
process_command(s, command) ==
    CASE command = CMD_BUTTON_4_LONG -> [s EXCEPT !.result = FALSE]
      [] command = CMD_TICK -> on_tick(s)
      [] command = CMD_BUTTON_1 -> on_button_1(s)
      [] command = CMD_BUTTON_2 -> on_button_2(s)
      [] command = CMD_BUTTON_2_LONG -> on_button_2_long(s)
      [] command = CMD_BUTTON_3 -> on_button_3(s)
      [] command = CMD_BUTTON_4 -> on_button_4(s)
      [] OTHER -> [s EXCEPT !.result = FALSE]

\* A faulty variant of left_loop: the state machine is not reset
left_loop_no_reset(s) == display_show(s, <<"D", "o", "n", "e">>)

\* main once its loop is left: 'Exit' is shown, the state machine is
\* reset (its timer stopped) and 'Done' is shown
left_loop(s) ==
    [display_show(s, <<"D", "o", "n", "e">>) EXCEPT !.timer = FALSE]

\* Bound of the model: the "DOWN" and "UP" commands processed
MaxPresses == 3

DisplayStates == {S_DISPLAY_RA, S_DISPLAY_RA_TARGET, S_DISPLAY_CLOCK,
                  S_DISPLAY_C_DATE}

ProgramStates == {S_PROGRAM_RA_TARGET_H, S_PROGRAM_RA_TARGET_M,
                  S_PROGRAM_CLOCK, S_PROGRAM_C_DAY, S_PROGRAM_C_MONTH}

\* What the stored values were when program mode was entered
Stored(s) ==
    [state |-> s.state, ra_target |-> s.ra_target,
     calibration_date |-> s.calibration_date, rtc |-> s.rtc,
     fram |-> s.fram, cache |-> s.cache, brightness |-> s.brightness]

\* _programming_left, _programming_right, _programming_left_on,
\* _programming_right_on and _programming_state are read in program mode
\* only (the tick and the "DISPLAY" button test _programming first) and
\* _to_program_ra_target_h, _to_program_clock and
\* _to_program_calibration_day set all five: outside program mode the
\* model holds them at their initial values
ProgramFields(s) ==
    IF s.programming THEN s
    ELSE [s EXCEPT !.programming_left = FALSE,
                   !.programming_right = FALSE,
                   !.programming_left_on = FALSE,
                   !.programming_right_on = FALSE,
                   !.programming_state = S_IDLE]

\* One turn of the main loop from the command that get() returned:
\* process_command is called, an exception counts as the result False,
\* and on False the loop is left
Turn(command) ==
    /\ running
    /\ command \in {CMD_BUTTON_3, CMD_BUTTON_4} => presses < MaxPresses
    /\ presses' = IF command \in {CMD_BUTTON_3, CMD_BUTTON_4}
                  THEN presses + 1 ELSE presses
    /\ \E r \in {process_command(Self, command)} :
       \E s \in {ProgramFields(IF r.result THEN r ELSE left_loop(r))} :
          /\ running' = r.result
          /\ state' = s.state
          /\ to_idle_countdown' = s.to_idle_countdown
          /\ brightness' = s.brightness
          /\ display_brightness' = s.display_brightness
          /\ timer' = s.timer
          /\ programming' = s.programming
          /\ programming_left' = s.programming_left
          /\ programming_right' = s.programming_right
          /\ programming_left_on' = s.programming_left_on
          /\ programming_right_on' = s.programming_right_on
          /\ programming_state' = s.programming_state
          /\ programming_value' = s.programming_value
          /\ ra_target' = s.ra_target
          /\ calibration_date' = s.calibration_date
          /\ rtc' = s.rtc
          /\ display' = s.display
          /\ fram' = s.fram
          /\ cache' = s.cache
          /\ last' = Some([command |-> command, state |-> state,
                           value |-> programming_value,
                           brightness |-> brightness,
                           countdown |-> to_idle_countdown,
                           stored |-> Stored(Self),
                           left_on |-> programming_left_on,
                           right_on |-> programming_right_on,
                           result |-> r.result, raised |-> r.raised,
                           writes |-> r.writes,
                           set_brightness |-> r.set_brightness])
          /\ edit_entry' = IF s.programming /\ ~programming
                           THEN Some(Stored(Self))
                           ELSE IF programming THEN edit_entry
                           ELSE None
          /\ ticks' = IF command = CMD_TICK
                      THEN IF state \in DisplayStates /\ ticks # None
                           THEN Some(Get(ticks) + 1) ELSE None
                      ELSE IF /\ s.state \in DisplayStates
                              /\ \/ s.state # state
                                 \/ command \in {CMD_BUTTON_3, CMD_BUTTON_4}
                      THEN Some(0) ELSE None
    /\ UNCHANGED <<show_ra_out, fram_call, fram_ret, committed, torn, fram_ops,
                   unacked>>

\* A turn of the main loop seen by itself, with the command taken from
\* any that get() can return
ProcessCommand(command) ==
    /\ Turn(command)
    /\ UNCHANGED <<queue_vars, race_vars, button_vars, loop_vars>>

-----------------------------------------------------------------------------
(* Specifications *)

\* Gregorian calendar of the real-time clock
CalendarLeap(y) == (y % 4 = 0 /\ y % 100 # 0) \/ y % 400 = 0

CalendarMonthLength(y, m) ==
    CASE m \in {4, 6, 9, 11} -> 30
      [] m = 2 -> IF CalendarLeap(y) THEN 29 ELSE 28
      [] OTHER -> 31

\* The dates a CalibrationDate can hold: day 1.._DAYS[month]
CalibrationDates == {c \in [d : 1..31, m : 1..12] : c.d <= DAYS[c.m]}

RaTargets == [h : 0..23, m : 0..59]

\* Years with every case of the leap-year rule, in the year and before it
Years == {2000, 2001, 2024, 2100, 2101}

RtcDates(years) ==
    {t \in [year : years, month : 1..12, dom : 1..31] :
        t.dom <= CalendarMonthLength(t.year, t.month)}

At(date, h, m) ==
    [year |-> date.year, month |-> date.month, dom |-> date.dom,
     h |-> h, m |-> m]

InitClock ==
    /\ rtc = [year |-> 2024, month |-> 1, dom |-> 3, h |-> 0, m |-> 0]
    /\ ra_target = DEFAULT_RA_TARGET
    /\ calibration_date = DEFAULT_CALIBRATION_DATE
    /\ display = Blank
    /\ show_ra_out = None

InitFram ==
    /\ fram = [o \in 0..7 |-> 0]
    /\ cache = [f \in Records |-> None]
    /\ fram_call = None
    /\ fram_ret = None
    /\ committed = [f \in Records |-> <<>>]
    /\ torn = [f \in Records |-> FALSE]
    /\ fram_ops = 0
    /\ unacked = 0

InitQueue ==
    /\ queue = <<>>
    /\ queue_log = <<>>

InitRace ==
    /\ handler = [p \in Callbacks |-> None]
    /\ getter = "members"
    /\ puts = 0
    /\ appended = 0
    /\ delivered = 0

\* main has set the four handlers with pin.irq(trigger=Pin.IRQ_RISING)
InitButtons ==
    /\ button = [b \in Buttons |->
                    [irq |-> TRUE, pc |-> 0, level |-> FALSE,
                     duration |-> None, sent |-> None, did |-> <<>>]]
    /\ edges = 0

\* main about to call get()
InitLoop ==
    /\ cmd = None
    /\ processed = 0

\* StateMachine.__init__ with the brightness b read from the RaFRAM, and
\* the main loop about to start
InitStateMachine(b) ==
    /\ state = S_IDLE
    /\ to_idle_countdown = 0
    /\ brightness = b
    /\ display_brightness = b
    /\ timer = FALSE
    /\ programming = FALSE
    /\ programming_left = FALSE
    /\ programming_right = FALSE
    /\ programming_left_on = FALSE
    /\ programming_right_on = FALSE
    /\ programming_state = S_IDLE
    /\ programming_value = None
    /\ running = TRUE
    /\ last = None
    /\ edit_entry = None
    /\ ticks = None
    /\ presses = 0

\* The program as started on a cleared FRAM
Init ==
    /\ InitClock /\ InitFram /\ InitQueue /\ InitRace
    /\ InitButtons /\ InitLoop
    /\ InitStateMachine(DEFAULT_BRIGHTNESS)

\* days_since_calibration over every calibration date and every date
InitDays ==
    /\ \E date \in RtcDates(Years) : rtc = At(date, 0, 0)
    /\ calibration_date \in CalibrationDates
    /\ ra_target = DEFAULT_RA_TARGET
    /\ display = Blank
    /\ show_ra_out = None
    /\ InitFram
    /\ InitQueue
    /\ InitRace
    /\ InitButtons
    /\ InitLoop
    /\ InitStateMachine(DEFAULT_BRIGHTNESS)

SpecDays == InitDays /\ [][ShowRa]_vars

\* show_ra over every target, with calibration dates, dates and times
\* around the year's and the day's ends
RaCalibrationDates ==
    {DEFAULT_CALIBRATION_DATE, [d |-> 1, m |-> 1], [d |-> 28, m |-> 2],
     [d |-> 1, m |-> 3], [d |-> 31, m |-> 12]}

RaDates ==
    {t \in RtcDates({2023, 2024}) :
        \/ [d |-> t.dom, m |-> t.month] \in RaCalibrationDates
        \/ t.month = 1 /\ t.dom \in {2, 4}
        \/ t.month = 2 /\ t.dom \in {27, 29}
        \/ t.month = 12 /\ t.dom = 30}

RaTimes == {<<0, 0>>, <<6, 0>>, <<23, 59>>}

InitRa ==
    /\ \E date \in RaDates, t \in RaTimes : rtc = At(date, t[1], t[2])
    /\ calibration_date \in RaCalibrationDates
    /\ ra_target \in RaTargets
    /\ display = Blank
    /\ show_ra_out = None
    /\ InitFram
    /\ InitQueue
    /\ InitRace
    /\ InitButtons
    /\ InitLoop
    /\ InitStateMachine(DEFAULT_BRIGHTNESS)

SpecRa == InitRa /\ [][ShowRa]_vars

\* show_ra called hour after hour through the year that follows a
\* calibration
DriftYears == {2023, 2024}

\* The clock an hour after now
NextHour(now) ==
    IF now.h < 23 THEN [now EXCEPT !.h = now.h + 1]
    ELSE IF now.dom < CalendarMonthLength(now.year, now.month)
    THEN [now EXCEPT !.h = 0, !.dom = now.dom + 1]
    ELSE IF now.month < 12
    THEN [now EXCEPT !.h = 0, !.dom = 1, !.month = now.month + 1]
    ELSE [now EXCEPT !.h = 0, !.dom = 1, !.month = 1, !.year = now.year + 1]

\* The clock is at midnight on the calibration date
InitDrift ==
    /\ calibration_date \in RaCalibrationDates
    /\ \E year \in DriftYears :
          rtc = [year |-> year, month |-> calibration_date.m,
                 dom |-> calibration_date.d, h |-> 0, m |-> 0]
    /\ ra_target = DEFAULT_RA_TARGET
    /\ display = Blank
    /\ show_ra_out = None
    /\ InitFram
    /\ InitQueue
    /\ InitRace
    /\ InitButtons
    /\ InitLoop
    /\ InitStateMachine(DEFAULT_BRIGHTNESS)

\* _to_display_ra calls show_ra again when the RTC has gone on an hour,
\* up to the last hour before the calibration date comes again
ShowRaAnHourLater ==
    /\ show_ra_out # None
    /\ LET now == NextHour(rtc)
       IN  /\ ~(/\ now.month = calibration_date.m
                 /\ now.dom = calibration_date.d
                 /\ rtc.dom # calibration_date.d)
           /\ rtc' = now
           /\ \E out \in {show_ra(ra_target, calibration_date, now)} :
                 /\ show_ra_out' = Some(out)
                 /\ display' = IF out.raised THEN display
                               ELSE show(out.scope_ra, display)
    /\ UNCHANGED <<ra_target, calibration_date, fram_vars, queue_vars,
                   race_vars, sm_vars, button_vars, loop_vars>>

NextDrift == ShowRa \/ ShowRaAnHourLater

SpecDrift == InitDrift /\ [][NextDrift]_vars

\* RaFRAM under any sequence of calls and power cuts
BrightnessValues == {MIN_BRIGHTNESS, 7, MAX_BRIGHTNESS}

RaValues == {DEFAULT_RA_TARGET, [h |-> 0, m |-> 0], [h |-> 23, m |-> 59]}

CalibrationValues == {DEFAULT_CALIBRATION_DATE, [d |-> 31, m |-> 12]}

WriteValues(f) ==
    CASE f = "brightness" -> BrightnessValues
      [] f = "ra_target" -> RaValues
      [] f = "calibration_date" -> CalibrationValues

NextFram ==
    \/ \E f \in Records : ReadCall(f)
    \/ \E f \in Records : \E v \in WriteValues(f) : WriteCall(f, v)
    \/ ClearCall
    \/ FramWriteByte
    \/ PowerCut

SpecFram == Init /\ [][NextFram]_vars

\* RaFRAM with byte writes that the FRAM may not acknowledge
NextFramNack ==
    \/ \E f \in Records : ReadCall(f)
    \/ \E f \in Records : \E v \in WriteValues(f) : WriteCall(f, v)
    \/ ClearCall
    \/ FramWriteByte
    \/ FramWriteByteNotAcknowledged
    \/ PowerCut

SpecFramNack == Init /\ [][NextFramNack]_vars

\* CommandQueue under any sequence of put and get
NextQueue ==
    \/ \E command \in Commands : Put(command)
    \/ GetCmd

SpecQueue == Init /\ [][NextQueue]_vars

\* The four buttons and the main loop's get()
NextButtons ==
    \/ \E b \in Buttons :
          \/ Pressed(b)
          \/ IrqOff(b)
          \/ Debounce(b)
          \/ Held(b)
          \/ PutCommand(b)
          \/ IrqOn(b)
    \/ GetCmd

SpecButtons == Init /\ [][NextButtons]_vars

\* The callbacks and the main loop on the queue, statement by statement
NextRace ==
    \/ \E p \in Callbacks : \E command \in CallbackCommands(p) :
          PutCheck(p, command)
    \/ \E p \in Callbacks : PutAppend(p)
    \/ GetMembers
    \/ GetPop

SpecRace == Init /\ [][NextRace]_vars

\* The state machine under any sequence of commands, started with stored
\* values at and off their limits
\* The stored brightness, RA target and calibration date, and the clock
Starts ==
    {[b |-> MIN_BRIGHTNESS, t |-> DEFAULT_RA_TARGET,
      c |-> DEFAULT_CALIBRATION_DATE,
      now |-> [year |-> 2024, month |-> 1, dom |-> 3, h |-> 21, m |-> 30]],
     [b |-> MAX_BRIGHTNESS, t |-> [h |-> 23, m |-> 59],
      c |-> [d |-> 31, m |-> 12],
      now |-> [year |-> 2023, month |-> 12, dom |-> 31, h |-> 23,
               m |-> 59]]}

\* The FRAM and the RaFRAM cache once StateMachine.__init__ has read the
\* three records
InitMachine ==
    /\ \E st \in Starts :
          /\ InitStateMachine(st.b)
          /\ rtc = st.now
          /\ ra_target = st.t
          /\ calibration_date = st.c
          /\ cache = [f \in Records |->
                        CASE f = "brightness" -> Some(st.b)
                          [] f = "ra_target" -> Some(st.t)
                          [] f = "calibration_date" -> Some(st.c)]
          /\ committed = [f \in Records |->
                            CASE f = "brightness" -> Values(f, st.b)
                              [] f = "ra_target" -> Values(f, st.t)
                              [] f = "calibration_date" -> Values(f, st.c)]
          /\ fram = write_bytes(write_bytes(write_bytes([o \in 0..7 |-> 0],
                        write_value(OFFSET_BRIGHTNESS,
                                    Values("brightness", st.b))),
                        write_value(OFFSET_RA_TARGET,
                                    Values("ra_target", st.t))),
                        write_value(OFFSET_CALIBRATION_DATE,
                                    Values("calibration_date", st.c)))
    /\ display = Blank
    /\ show_ra_out = None
    /\ fram_call = None
    /\ fram_ret = None
    /\ torn = [f \in Records |-> FALSE]
    /\ fram_ops = 0
    /\ unacked = 0
    /\ InitQueue
    /\ InitRace
    /\ InitButtons
    /\ InitLoop

NextMachine == \E command \in Commands : ProcessCommand(command)

\* A callback calls _COMMAND_QUEUE.put(command), counted: puts is the
\* number of calls and appended the number of commands stored; "UP" and
\* "DOWN" come within the presses the state machine is followed for
CallbackPut(command) ==
    /\ puts < MaxPuts
    /\ command \in {CMD_BUTTON_3, CMD_BUTTON_4} => puts < MaxPresses
    /\ puts' = puts + 1
    /\ appended' = IF put_has_room(queue) THEN appended + 1 ELSE appended
    /\ queue' = put(queue, command)
    /\ queue_log' = Logged([op |-> "put", command |-> Some(command),
                            pre |-> queue, post |-> queue'])
    /\ UNCHANGED <<handler, getter, delivered>>
    /\ UNCHANGED <<clock_vars, fram_vars, sm_vars, button_vars, loop_vars>>

\* main: cmd = _COMMAND_QUEUE.get(), at the top of the loop and again
\* after each sleep while cmd is None
LoopGet ==
    /\ running
    /\ cmd = None
    /\ cmd' = get(queue).ret
    /\ queue' = get(queue).queue
    /\ queue_log' = Logged([op |-> "get", command |-> get(queue).ret,
                            pre |-> queue, post |-> queue'])
    /\ delivered' = IF get(queue).ret # None THEN delivered + 1
                    ELSE delivered
    /\ UNCHANGED <<handler, getter, puts, appended, processed>>
    /\ UNCHANGED <<clock_vars, fram_vars, sm_vars, button_vars>>

\* main: process_command(cmd) on the command got, the test of its
\* result, and back to the top of the loop
LoopProcess ==
    /\ cmd # None
    /\ Turn(Get(cmd))
    /\ cmd' = None
    /\ processed' = processed + 1
    /\ UNCHANGED <<queue_vars, race_vars, button_vars>>

\* The callbacks and the main loop
NextLoop ==
    \/ \E command \in Commands : CallbackPut(command)
    \/ LoopGet
    \/ LoopProcess

SpecLoop == Init /\ [][NextLoop]_vars

\* The step of LoopProcess as cmd and processed show it; no other action
\* takes cmd from a command to None, and LoopProcess can run whenever cmd
\* holds a command (the loop is then running, and process_command takes
\* every command)
LoopProcessed ==
    /\ cmd # None
    /\ cmd' = None
    /\ processed' = processed + 1

\* The main loop is the foreground: it goes on whenever it can, with its
\* get() and with its call of process_command
SpecLoopFair ==
    SpecLoop /\ WF_vars(LoopGet) /\ WF_loop_vars(LoopProcessed)

SpecMachine == InitMachine /\ [][NextMachine]_vars

\* An edit under way with any value to program, under the commands that
\* act on it
\* _programming_value as an hour and a minute, 'hhmm'
TimeBuffers == {Fmt02d(h) \o Fmt02d(m) : h \in 0..23, m \in 0..59}

\* The RA target to program: _program_down leaves the hour as '2d'
RaBuffers ==
    TimeBuffers \cup {Fmt2d(h) \o Fmt02d(m) : h \in 0..9, m \in 0..59}

\* The calibration date to program, the day as '2d' with the month's name
DateBuffers == {Fmt2d(c.d) \o MONTH_NAME[c.m] : c \in CalibrationDates}

EditBuffers(st) ==
    CASE st \in {S_PROGRAM_RA_TARGET_H, S_PROGRAM_RA_TARGET_M} -> RaBuffers
      [] st = S_PROGRAM_CLOCK -> TimeBuffers
      [] st \in {S_PROGRAM_C_DAY, S_PROGRAM_C_MONTH} -> DateBuffers

\* The display state a program state was entered from
EnteredFrom(st) ==
    CASE st \in {S_PROGRAM_RA_TARGET_H, S_PROGRAM_RA_TARGET_M} ->
           S_DISPLAY_RA_TARGET
      [] st = S_PROGRAM_CLOCK -> S_DISPLAY_CLOCK
      [] st \in {S_PROGRAM_C_DAY, S_PROGRAM_C_MONTH} -> S_DISPLAY_C_DATE

\* Program mode as the _to_program_* methods set it, with the value to
\* program as "UP", "DOWN" and the program button have left it; the stored
\* values are the defaults
InitEdit ==
    /\ \E st \in ProgramStates : \E v \in EditBuffers(st) :
          /\ state = st
          /\ programming_value = Some(v)
          /\ programming_left = (st \in {S_PROGRAM_RA_TARGET_H, S_PROGRAM_C_DAY,
                                         S_PROGRAM_CLOCK})
          /\ programming_right = (st \in {S_PROGRAM_RA_TARGET_M,
                                          S_PROGRAM_C_MONTH, S_PROGRAM_CLOCK})
          /\ programming_state = EnteredFrom(st)
          /\ display = show(v, Blank)
    /\ programming = TRUE
    /\ programming_left_on = TRUE
    /\ programming_right_on = TRUE
    /\ to_idle_countdown = 0
    /\ timer = TRUE
    /\ running = TRUE
    /\ brightness = DEFAULT_BRIGHTNESS
    /\ display_brightness = DEFAULT_BRIGHTNESS
    /\ rtc = [year |-> 2024, month |-> 1, dom |-> 3, h |-> 21, m |-> 30]
    /\ ra_target = DEFAULT_RA_TARGET
    /\ calibration_date = DEFAULT_CALIBRATION_DATE
    /\ cache = [f \in Records |-> Some(Default(f))]
    /\ committed = [f \in Records |-> Values(f, Default(f))]
    /\ fram = write_bytes(write_bytes(write_bytes([o \in 0..7 |-> 0],
                  write_value(OFFSET_BRIGHTNESS,
                              Values("brightness", DEFAULT_BRIGHTNESS))),
                  write_value(OFFSET_RA_TARGET,
                              Values("ra_target", DEFAULT_RA_TARGET))),
                  write_value(OFFSET_CALIBRATION_DATE,
                              Values("calibration_date",
                                     DEFAULT_CALIBRATION_DATE)))
    /\ edit_entry = Some([Stored(Self) EXCEPT !.state = programming_state])
    /\ last = None
    /\ ticks = None
    /\ presses = 0
    /\ show_ra_out = None
    /\ fram_call = None
    /\ fram_ret = None
    /\ torn = [f \in Records |-> FALSE]
    /\ fram_ops = 0
    /\ unacked = 0
    /\ InitQueue
    /\ InitRace
    /\ InitButtons
    /\ InitLoop

EditCommands == {CMD_BUTTON_2, CMD_BUTTON_2_LONG, CMD_BUTTON_3, CMD_BUTTON_4}

\* The main loop's turns while program mode is set
NextEdit == \E command \in EditCommands : programming /\ ProcessCommand(command)

SpecEdit == InitEdit /\ [][NextEdit]_vars

\* The parts side by side
Next ==
    \/ ShowRa
    \/ NextFramNack
    \/ NextQueue
    \/ NextRace
    \/ NextMachine
    \/ NextButtons
    \/ NextLoop
    \/ ShowRaAnHourLater

Spec == Init /\ [][Next]_vars

-----------------------------------------------------------------------------
(* Compensation: show_ra and days_since_calibration *)

SameDay == rtc.dom = calibration_date.d /\ rtc.month = calibration_date.m

\* C1: for every valid target RA, calibration date and date-time, the
\* corrected RA that show_ra computes and shows has its hour in 0..23 and
\* its minute in 0..59.
C1_CorrectedRaInRange ==
    \A out \in show_ra_out :
        /\ ~out.raised
        /\ out.scope_ra_hours \in 0..23
        /\ out.scope_ra_minutes \in 0..59
        /\ int(display.l) \in 0..23
        /\ int(display.r) \in 0..59

\* C2: the minute total before the wrap (target + clock + hour \div 6 +
\* 4 * whole days) is below 2880, so that the one subtraction of 1440
\* leaves the total modulo 1440.
C2_SingleWrapIsModulo ==
    \A out \in show_ra_out :
        /\ out.total < 2 * DAY_MINUTES
        /\ out.wrapped = out.total % DAY_MINUTES

\* C3: on the calibration day and month at 00:00 the corrected RA is the
\* target RA, for every target and year.
C3_CalibrationMidnightIsTarget ==
    \A out \in show_ra_out :
        (SameDay /\ rtc.h = 0 /\ rtc.m = 0) =>
            /\ ~out.raised
            /\ out.scope_ra_hours = ra_target.h
            /\ out.scope_ra_minutes = ra_target.m
            /\ int(display.l) = ra_target.h
            /\ int(display.r) = ra_target.m

C3_Witness ==
    /\ show_ra_out # None
    /\ SameDay /\ rtc.h = 0 /\ rtc.m = 0
    /\ rtc.year = 2023 /\ calibration_date = [d |-> 31, m |-> 12]
    /\ ra_target = [h |-> 23, m |-> 59]
    /\ display = [l |-> <<"2", "3">>, r |-> <<"5", "9">>]

\* C4: days_since_calibration is 0 on the calibration day and month and
\* otherwise within 1..365: its assertion now_offset > c_offset holds for
\* every calibration date and every date, 29 February included.
C4_ElapsedDaysInRange ==
    \A out \in show_ra_out :
        IF SameDay THEN out.elapsed_days = 0
        ELSE out.elapsed_days \in 1..365

C4_Witness ==
    /\ show_ra_out # None
    /\ rtc.month = 2 /\ rtc.dom = 29
    /\ calibration_date = [d |-> 1, m |-> 3]
    /\ Get(show_ra_out).elapsed_days = 365

RECURSIVE CalendarDaysBefore(_, _)
\* The days of year y before month m
CalendarDaysBefore(y, m) ==
    IF m = 1 THEN 0
    ELSE CalendarDaysBefore(y, m - 1) + CalendarMonthLength(y, m - 1)

CalendarDayOfYear(y, m, d) == CalendarDaysBefore(y, m) + d

CalendarYearLength(y) == IF CalendarLeap(y) THEN 366 ELSE 365

\* The days from the latest day (c.d, c.m) not after the date now, to now
CalendarElapsed(c, now) ==
    IF c.m < now.month \/ (c.m = now.month /\ c.d <= now.dom)
    THEN CalendarDayOfYear(now.year, now.month, now.dom)
         - CalendarDayOfYear(now.year, c.m, c.d)
    ELSE CalendarYearLength(now.year - 1)
         - CalendarDayOfYear(now.year - 1, c.m, c.d)
         + CalendarDayOfYear(now.year, now.month, now.dom)

\* C5: days_since_calibration is the number of calendar days from the
\* latest past calibration day and month to the date, by the Gregorian
\* leap-year rule: 31 December to 1 January is 1, 31 December to 1 March
\* is 61 in a leap year and 60 otherwise.
C5_ElapsedDaysIsCalendarDistance ==
    \A out \in show_ra_out :
        /\ out.elapsed_days = CalendarElapsed(calibration_date, rtc)
        /\ calibration_date = [d |-> 31, m |-> 12] =>
            /\ (rtc.month = 1 /\ rtc.dom = 1) => out.elapsed_days = 1
            /\ (rtc.month = 3 /\ rtc.dom = 1) =>
                  out.elapsed_days = IF CalendarLeap(rtc.year) THEN 61
                                     ELSE 60

C5_Witness ==
    /\ show_ra_out # None
    /\ calibration_date = [d |-> 31, m |-> 12]
    /\ rtc.year = 2024 /\ rtc.month = 3 /\ rtc.dom = 1
    /\ Get(show_ra_out).elapsed_days = 61

-----------------------------------------------------------------------------
(* RaFRAM *)

Marker(f) == fram[Offset(f)]

Payload(f) == read_values(fram, Offset(f), PayloadLength(f))

\* C6: a completed write_x(v) followed by read_x() returns v, for each
\* record and whatever calls came before the write.
C6_WriteThenReadRoundTrip ==
    \A r \in fram_ret :
        \A w \in r.prev :
            (r.op = "read" /\ w.op = "write" /\ w.field = r.field) =>
                r.value = w.arg

C6_Witness ==
    \E r \in fram_ret :
        \E w \in r.prev :
            /\ r.op = "read" /\ w.op = "write"
            /\ r.field = "ra_target" /\ w.field = "ra_target"
            /\ w.arg = Some([h |-> 0, m |-> 0])
            /\ r.value = Some([h |-> 0, m |-> 0])
            /\ fram_ops = MaxFramOps

\* C7: after clear() the next read_x() returns the built-in default and
\* leaves the record valid with the default as its payload, whatever was
\* read or written before the clear().
C7_ReadAfterClearIsDefault ==
    \A r \in fram_ret :
        \A c \in r.prev :
            (r.op = "read" /\ c.op = "clear") =>
                /\ r.value = Some(Default(r.field))
                /\ Marker(r.field) = VALID
                /\ Payload(r.field) = Values(r.field, Default(r.field))

\* C8: when a write was cut after its marker went invalid and before it
\* went valid again, the next read of the record returns the built-in
\* default.
C8_TornWriteReadsDefault ==
    \A r \in fram_ret :
        (r.op = "read" /\ r.torn) => r.value = Some(Default(r.field))

C8_Witness ==
    \E r \in fram_ret :
        /\ r.op = "read" /\ r.torn
        /\ r.field = "ra_target"
        /\ r.value = Some(DEFAULT_RA_TARGET)
        /\ committed["ra_target"] = Values("ra_target", DEFAULT_RA_TARGET)

\* C9: a record whose marker is VALID holds the payload bytes of one
\* single write, the one that last set the marker valid; no record is
\* valid with bytes of two writes.
C9_ValidRecordIsOneWrite ==
    \A f \in Records : Marker(f) = VALID => Payload(f) = committed[f]

\* A valid RA target beside a calibration date cut after its first byte
C9_Witness ==
    /\ Marker("ra_target") = VALID
    /\ Payload("ra_target") = <<23, 59>>
    /\ Marker("calibration_date") = INVALID
    /\ Payload("calibration_date") = <<31, 0>>
    /\ fram_call = None

-----------------------------------------------------------------------------
(* CommandQueue *)

\* C10: put stores the command only when the queue is empty and drops it
\* otherwise; two puts in a row leave exactly one command, the first when
\* the queue was empty before them; the next get returns it and the get
\* after that returns None.
C10_PutKeepsFirst ==
    /\ \A i \in 1..Len(queue_log) :
          LET e == queue_log[i] IN
          e.op = "put" =>
              e.post = IF e.pre = <<>> THEN <<Get(e.command)>> ELSE e.pre
    /\ \A i \in 1..(Len(queue_log) - 1) :
          LET first == queue_log[i]
              second == queue_log[i + 1]
          IN  (first.op = "put" /\ second.op = "put") =>
                /\ Len(second.post) = 1
                /\ first.pre = <<>> =>
                    /\ second.post = <<Get(first.command)>>
                    /\ \A j \in {i + 2} \cap DOMAIN queue_log :
                          queue_log[j].op = "get" =>
                            /\ queue_log[j].command = first.command
                            /\ \A k \in {i + 3} \cap DOMAIN queue_log :
                                  queue_log[k].op = "get" =>
                                    queue_log[k].command = None

C10_Witness ==
    /\ Len(queue_log) >= 4
    /\ LET n == Len(queue_log) IN
       /\ queue_log[n - 3].op = "put" /\ queue_log[n - 3].pre = <<>>
       /\ queue_log[n - 3].command = Some(CMD_BUTTON_1)
       /\ queue_log[n - 2].op = "put"
       /\ queue_log[n - 2].command = Some(CMD_TICK)
       /\ queue_log[n - 1].op = "get"
       /\ queue_log[n - 1].command = Some(CMD_BUTTON_1)
       /\ queue_log[n].op = "get"
       /\ queue_log[n].command = None
    /\ queue = <<>>

\* The calls queue_log[i..j] are all puts, the first on an empty queue
PutRun(i, j) ==
    /\ i < j
    /\ queue_log[i].pre = <<>>
    /\ \A k \in i..j : queue_log[k].op = "put"

\* C11: when several commands are put before the main loop gets one, the
\* first of them occupies the slot and the later ones are dropped; the
\* next get returns the first.
C11_FirstSubmittedWins ==
    \A i \in DOMAIN queue_log : \A j \in DOMAIN queue_log :
        PutRun(i, j) =>
            /\ queue_log[j].post = <<Get(queue_log[i].command)>>
            /\ \A g \in {j + 1} \cap DOMAIN queue_log :
                  queue_log[g].op = "get" =>
                      queue_log[g].command = queue_log[i].command

\* C11 as the sentence has it: the last of them occupies the slot
C11_LastSubmittedWins ==
    \A i \in DOMAIN queue_log : \A j \in DOMAIN queue_log :
        PutRun(i, j) => queue_log[j].post = <<Get(queue_log[j].command)>>

\* Three puts, then the get returns the first of them
C11_Witness ==
    /\ Len(queue_log) = QueueLogLen
    /\ PutRun(QueueLogLen - 3, QueueLogLen - 1)
    /\ queue_log[QueueLogLen - 3].command = Some(CMD_BUTTON_2)
    /\ queue_log[QueueLogLen - 2].command = Some(CMD_TICK)
    /\ queue_log[QueueLogLen - 1].command = Some(CMD_BUTTON_4_LONG)
    /\ queue_log[QueueLogLen].op = "get"
    /\ queue_log[QueueLogLen].command = Some(CMD_BUTTON_2)

\* C12: under every interleaving of the callbacks' puts (a length check,
\* then an append) with one another and with the main loop's get, the
\* queue never holds more than one command and no command is returned
\* twice.
C12_AtMostOnePending ==
    /\ Len(queue) <= queue_size
    /\ delivered <= appended

-----------------------------------------------------------------------------
(* StateMachine *)

States == DisplayStates \cup ProgramStates \cup {S_IDLE}

\* The state after the one shown, in the order the "DISPLAY" button
\* goes through
Browse(st) ==
    CASE st = S_IDLE -> S_DISPLAY_RA
      [] st = S_DISPLAY_RA -> S_DISPLAY_RA_TARGET
      [] st = S_DISPLAY_RA_TARGET -> S_DISPLAY_CLOCK
      [] st = S_DISPLAY_CLOCK -> S_DISPLAY_C_DATE
      [] st = S_DISPLAY_C_DATE -> S_DISPLAY_RA

\* C13: outside program mode each "DISPLAY" command moves Idle to
\* DisplayRa, DisplayRa to DisplayRaTarget, DisplayRaTarget to
\* DisplayClock, DisplayClock to DisplayCalibrationDate and that back to
\* DisplayRa; each such entry sets the countdown to idle to 8 and leaves
\* program mode cleared.
C13_BrowseCycle ==
    \A e \in last :
        (e.command = CMD_BUTTON_1 /\ e.state \notin ProgramStates) =>
            /\ state = Browse(e.state)
            /\ to_idle_countdown = 8
            /\ ~programming
            /\ programming_value = None

\* The cycle closes: from DisplayCalibrationDate back to DisplayRa
C13_Witness ==
    \E e \in last :
        /\ e.command = CMD_BUTTON_1
        /\ e.state = S_DISPLAY_C_DATE
        /\ state = S_DISPLAY_RA
        /\ to_idle_countdown = 8
        /\ running

\* The record f of the FRAM is valid and holds v, and so does the cache
Holds(f, v) ==
    /\ Marker(f) = VALID
    /\ Payload(f) = Values(f, v)
    /\ cache[f] = Some(v)

\* C14: the program button held while the RA target is edited (hour or
\* minute) writes exactly the RA parsed from the program-mode value and
\* moves to DisplayRa; held while the calibration date is edited (day or
\* month) it writes exactly the parsed date and moves to
\* DisplayCalibrationDate. The other records stay as they are.
C14_CommitWritesParsed ==
    \A e \in last : \A v \in e.value :
        e.command = CMD_BUTTON_2_LONG =>
            /\ e.state \in {S_PROGRAM_RA_TARGET_H, S_PROGRAM_RA_TARGET_M} =>
                LET t == [h |-> int(Left(v)), m |-> int(Right(v))]
                IN  /\ e.writes = <<[field |-> "ra_target", value |-> t]>>
                    /\ ra_target = t
                    /\ Holds("ra_target", t)
                    /\ Holds("calibration_date", calibration_date)
                    /\ state = S_DISPLAY_RA
            /\ e.state \in {S_PROGRAM_C_DAY, S_PROGRAM_C_MONTH} =>
                LET c == [d |-> int(Left(v)),
                          m |-> CHOOSE i \in 1..12 : MONTH_NAME[i] = Right(v)]
                IN  /\ e.writes = <<[field |-> "calibration_date",
                                     value |-> c]>>
                    /\ calibration_date = c
                    /\ Holds("calibration_date", c)
                    /\ Holds("ra_target", ra_target)
                    /\ state = S_DISPLAY_C_DATE

\* From "0516" three "UP"s on the hour and the button held: RA(8, 16) is
\* stored and DisplayRa is the state
C14_Witness ==
    \E e \in last :
        /\ e.command = CMD_BUTTON_2_LONG
        /\ e.state = S_PROGRAM_RA_TARGET_H
        /\ e.value = Some(<<"0", "8", "1", "6">>)
        /\ edit_entry # None
        /\ Get(edit_entry).ra_target = [h |-> 5, m |-> 16]
        /\ presses = 3
        /\ ra_target = [h |-> 8, m |-> 16]
        /\ Payload("ra_target") = <<8, 16>>
        /\ state = S_DISPLAY_RA

\* C15: the program button held in ProgramClock sets the clock to the
\* current date with the hour and minute of the program-mode value, moves
\* to DisplayClock, and the main loop keeps running.
C15_ClockCommitSetsClock ==
    \A e \in last : \A v \in e.value :
        (e.command = CMD_BUTTON_2_LONG /\ e.state = S_PROGRAM_CLOCK) =>
            /\ rtc.h = int(Left(v))
            /\ rtc.m = int(Right(v))
            /\ \A entry \in edit_entry :
                  /\ rtc.year = entry.rtc.year
                  /\ rtc.month = entry.rtc.month
                  /\ rtc.dom = entry.rtc.dom
            /\ state = S_DISPLAY_CLOCK
            /\ running

\* C16: after a display state is entered, or "UP" or "DOWN" is processed
\* in one, the machine goes to Idle when the 8th tick after it is
\* processed and not before, no other command being processed in between;
\* "UP" and "DOWN" in a display state set the countdown to 8 again, also
\* with the brightness at its limit.
C16_IdleCountdown ==
    /\ \A n \in ticks :
          /\ state \in DisplayStates =>
                /\ n < 8
                /\ to_idle_countdown = 8 - n
          /\ \A e \in last :
                (e.command = CMD_TICK /\ e.state \in DisplayStates) =>
                    /\ state = S_IDLE <=> n = 8
                    /\ state # S_IDLE => state = e.state
    /\ \A e \in last :
          (e.command \in {CMD_BUTTON_3, CMD_BUTTON_4}
           /\ e.state \in DisplayStates) =>
              /\ state = e.state
              /\ to_idle_countdown = 8
              /\ ticks = Some(0)

\* "UP" with the brightness at 20 after some ticks, then eight ticks: Idle
C16_Witness ==
    \E e \in last :
        /\ e.command = CMD_TICK
        /\ e.state = S_DISPLAY_CLOCK
        /\ e.countdown = 1
        /\ ticks = Some(8)
        /\ state = S_IDLE
        /\ brightness = MAX_BRIGHTNESS
        /\ presses = 1
        /\ fram[OFFSET_BRIGHTNESS + 1] = MAX_BRIGHTNESS

\* C17: after any sequence of commands the brightness of the state
\* machine is within 1..20, and so is every value handed to
\* write_brightness and to the display's set_brightness; "UP" at 20 and
\* "DOWN" at 1 write nothing.
C17_BrightnessInRange ==
    /\ brightness \in 1..20
    /\ display_brightness \in 1..20
    /\ Payload("brightness")[1] \in 1..20
    /\ \A e \in last :
          /\ \A i \in DOMAIN e.writes :
                e.writes[i].field = "brightness" =>
                    e.writes[i].value \in 1..20
          /\ \A i \in DOMAIN e.set_brightness : e.set_brightness[i] \in 1..20
          /\ (\/ e.command = CMD_BUTTON_4 /\ e.brightness = 20
              \/ e.command = CMD_BUTTON_3 /\ e.brightness = 1) =>
                /\ \A i \in DOMAIN e.writes :
                      e.writes[i].field # "brightness"
                /\ e.set_brightness = <<>>
                /\ brightness = e.brightness
          /\ (e.state \in DisplayStates /\ e.set_brightness # <<>>) =>
                /\ e.writes = <<[field |-> "brightness",
                                 value |-> brightness]>>
                /\ e.set_brightness = <<brightness>>
                /\ Holds("brightness", brightness)

\* After two other "UP" or "DOWN" commands, "DOWN" at 1 writes nothing
C17_Witness ==
    \E e \in last :
        /\ e.command = CMD_BUTTON_3
        /\ e.state = S_DISPLAY_RA_TARGET
        /\ e.brightness = 1
        /\ e.writes = <<>>
        /\ brightness = 1
        /\ presses = 3
        /\ to_idle_countdown = 8

\* C18: after every processed command the state is one of the ten states,
\* program mode is set exactly in the five program states, and the
\* program-mode value is present exactly when program mode is set.
C18_StateExclusivity ==
    /\ state \in States
    /\ Cardinality(States) = 10
    /\ programming <=> state \in ProgramStates
    /\ programming <=> programming_value # None

\* The minute of the RA target being edited, after an "UP"
C18_Witness ==
    /\ state = S_PROGRAM_RA_TARGET_M
    /\ programming
    /\ programming_value = Some(<<"0", "5", "1", "7">>)
    /\ ra_target = DEFAULT_RA_TARGET
    /\ running

\* The stored values and the clock are those of entry
Unedited(entry) ==
    /\ ra_target = entry.ra_target
    /\ calibration_date = entry.calibration_date
    /\ rtc = entry.rtc
    /\ fram = entry.fram
    /\ cache = entry.cache
    /\ brightness = entry.brightness

\* C19: the "DISPLAY" button in a program state cancels the edit: the
\* stored values and the clock are as they were when program mode was
\* entered, the program-mode value is gone, and the state is the display
\* state program mode was entered from, also after the program button
\* moved between the two sides and after "UP" and "DOWN".
C19_DisplayCancelsEdit ==
    /\ programming => edit_entry # None /\ Unedited(Get(edit_entry))
    /\ \A e \in last :
          (e.command = CMD_BUTTON_1 /\ e.state \in ProgramStates) =>
              /\ edit_entry # None
              /\ Unedited(Get(edit_entry))
              /\ e.writes = <<>>
              /\ state = Get(edit_entry).state
              /\ state \in {S_DISPLAY_RA_TARGET, S_DISPLAY_CLOCK,
                            S_DISPLAY_C_DATE}
              /\ (state = S_DISPLAY_RA_TARGET) <=>
                    e.state \in {S_PROGRAM_RA_TARGET_H, S_PROGRAM_RA_TARGET_M}
              /\ (state = S_DISPLAY_CLOCK) <=> e.state = S_PROGRAM_CLOCK
              /\ ~programming
              /\ programming_value = None
              /\ to_idle_countdown = 8

\* 31 December edited to 31 January on the month side, then cancelled
C19_Witness ==
    \E e \in last :
        /\ e.command = CMD_BUTTON_1
        /\ e.state = S_PROGRAM_C_MONTH
        /\ e.value = Some(<<"3", "1", "J", "a">>)
        /\ state = S_DISPLAY_C_DATE
        /\ calibration_date = [d |-> 31, m |-> 12]
        /\ Payload("calibration_date") = <<31, 12>>
        /\ display = [l |-> <<"3", "1">>, r |-> <<"D", "e">>]

\* What the last command left as it met it
KillLeft ==
    \A e \in last :
        e.command = CMD_BUTTON_4_LONG =>
            /\ ~e.result
            /\ ~e.raised
            /\ ~running
            /\ state = e.state
            /\ programming_value = e.value
            /\ to_idle_countdown = e.countdown
            /\ brightness = e.brightness
            /\ e.writes = <<>>
            /\ e.set_brightness = <<>>
            /\ \A entry \in edit_entry : Unedited(entry)
            /\ Holds("brightness", brightness)
            /\ Holds("ra_target", ra_target)
            /\ Holds("calibration_date", calibration_date)

\* C20: the long press of button 4 is taken in every state: process_command
\* returns False for it and leaves the state, the program-mode value, the
\* countdown and the stored values as they are, and the main loop
\* processes no command after it.
C20_KillStopsLoop ==
    /\ [](KillLeft)
    /\ [][running /\ (~running' => \E e \in last' : ~e.result)]_vars

\* The long press met in the middle of an edit
C20_Witness ==
    \E e \in last :
        /\ e.command = CMD_BUTTON_4_LONG
        /\ e.state = S_PROGRAM_C_DAY
        /\ state = S_PROGRAM_C_DAY
        /\ programming_value = Some(<<" ", "4", "J", "a">>)
        /\ ~running
        /\ display = [l |-> <<"D", "o">>, r |-> <<"n", "e">>]

\* What a command that raised an exception left
RaisedLeft ==
    \A e \in last :
        e.raised =>
            /\ ~e.result
            /\ ~running
            /\ ~timer
            /\ display = [l |-> <<"D", "o">>, r |-> <<"n", "e">>]
            /\ e.state \in ProgramStates =>
                  /\ state = e.state
                  /\ programming
                  /\ programming_value = e.value
                  /\ \A entry \in edit_entry : Unedited(entry)

\* C21: a command whose processing raises an exception ends the main loop:
\* the result counts as False, the loop is left with the timer stopped and
\* 'Done' shown, the state the exception left is not changed again, and no
\* command is processed after it.
C21_ExceptionStopsLoop ==
    /\ [](RaisedLeft)
    /\ [][\A e \in last : ~e.raised]_vars

\* The exception of the program button held in ProgramClock
C21_Witness ==
    \E e \in last :
        /\ e.raised
        /\ e.command = CMD_BUTTON_2_LONG
        /\ e.state = S_PROGRAM_CLOCK
        /\ state = S_PROGRAM_CLOCK
        /\ ~running
        /\ ~timer
        /\ to_idle_countdown = 0

-----------------------------------------------------------------------------
(* RaFRAM with byte writes that are not acknowledged *)

\* C22: a write_* call (and the write of the default by a read_*) writes
\* the marker invalid, the payload bytes in order and the marker valid,
\* and saves the value to the cache after these; once a write_* call has
\* returned, the cache holds its value only with the record of the FRAM
\* valid and holding that value, also when a byte write was not
\* acknowledged.
C22_CacheOnlyAfterDurableWrite ==
    /\ \A c \in fram_call :
          c.op # "clear" =>
              LET all == write_value(Offset(c.field),
                                     Values(c.field, c.value))
              IN  /\ c.done + Len(c.todo) = Len(all)
                  /\ c.todo = SubSeq(all, c.done + 1, Len(all))
                  /\ Head(all).byte = INVALID
                  /\ all[Len(all)].byte = VALID
    /\ \A r \in fram_ret :
          (fram_call = None /\ r.op = "write") =>
              \A v \in r.arg :
                  cache[r.field] = Some(v) =>
                      /\ Marker(r.field) = VALID
                      /\ Payload(r.field) = Values(r.field, v)

-----------------------------------------------------------------------------
(* StateMachine: the countdown to idle *)

\* C23: a command processed in a display state leaves the countdown to
\* idle as follows: "DISPLAY", "UP" and "DOWN" leave it at 8 in a display
\* state; the program button enters program mode with the countdown 0
\* from DisplayRaTarget, DisplayClock and DisplayCalibrationDate and
\* changes nothing in DisplayRa; the program button held changes nothing,
\* the countdown stays as the ticks left it.
C23_InteractionCountdown ==
    \A e \in last :
        e.state \in DisplayStates =>
            /\ e.command \in {CMD_BUTTON_1, CMD_BUTTON_3, CMD_BUTTON_4} =>
                  /\ to_idle_countdown = 8
                  /\ state \in DisplayStates
            /\ (e.command = CMD_BUTTON_2 /\ e.state # S_DISPLAY_RA) =>
                  /\ to_idle_countdown = 0
                  /\ state \in ProgramStates
            /\ (\/ e.command = CMD_BUTTON_2 /\ e.state = S_DISPLAY_RA
                \/ e.command = CMD_BUTTON_2_LONG) =>
                  /\ to_idle_countdown = e.countdown
                  /\ state = e.state

\* C23 as stated: every command but the tick and the kill, processed in a
\* display state, leaves the countdown to idle at 8.
C23_AnyInteractionDefers ==
    \A e \in last :
        (/\ e.state \in DisplayStates
         /\ e.command \in {CMD_BUTTON_1, CMD_BUTTON_2, CMD_BUTTON_2_LONG,
                           CMD_BUTTON_3, CMD_BUTTON_4}) =>
            to_idle_countdown = 8

\* The program button held in DisplayClock after three ticks: five ticks
\* are left
C23_Witness ==
    \E e \in last :
        /\ e.command = CMD_BUTTON_2_LONG
        /\ e.state = S_DISPLAY_CLOCK
        /\ e.countdown = 5
        /\ state = S_DISPLAY_CLOCK
        /\ to_idle_countdown = 5
        /\ running

\* The program states of one value: the two sides of the RA target, the
\* clock, the two sides of the calibration date
SameEdit(st) ==
    CASE st \in {S_PROGRAM_RA_TARGET_H, S_PROGRAM_RA_TARGET_M} ->
           {S_PROGRAM_RA_TARGET_H, S_PROGRAM_RA_TARGET_M}
      [] st \in {S_PROGRAM_C_DAY, S_PROGRAM_C_MONTH} ->
           {S_PROGRAM_C_DAY, S_PROGRAM_C_MONTH}
      [] OTHER -> {st}

\* C24: in every program state the countdown to idle is 0; a tick, "UP",
\* "DOWN" or the program button processed in a program state leaves the
\* machine in a program state of the same value with the timer running,
\* so no sequence of them reaches Idle or a display state; a program
\* state is left only by "DISPLAY" or by the program button held.
C24_EditNeverIdles ==
    /\ state \in ProgramStates => to_idle_countdown = 0
    /\ \A e \in last :
          e.state \in ProgramStates =>
              /\ e.countdown = 0
              /\ e.command \in {CMD_TICK, CMD_BUTTON_2, CMD_BUTTON_3,
                                CMD_BUTTON_4} =>
                    /\ state \in SameEdit(e.state)
                    /\ programming
                    /\ timer
                    /\ running
              /\ state \notin ProgramStates =>
                    e.command \in {CMD_BUTTON_1, CMD_BUTTON_2_LONG}

\* A tick that blanked the minute side, after three "UP" or "DOWN" and the
\* program button: the RA target is still being edited
C24_Witness ==
    \E e \in last :
        /\ e.command = CMD_TICK
        /\ e.state = S_PROGRAM_RA_TARGET_M
        /\ state = S_PROGRAM_RA_TARGET_M
        /\ presses = 3
        /\ ~programming_right_on
        /\ display.r = Blank.r
        /\ to_idle_countdown = 0
        /\ timer

\* C25: while the main loop runs, after every processed command the timer
\* runs exactly when the state is not Idle, the countdown to idle is 0 in
\* Idle and within 1..8 in every display state.
C25_TimerIffNotIdle ==
    (running /\ last # None) =>
        /\ timer <=> state # S_IDLE
        /\ state = S_IDLE => to_idle_countdown = 0
        /\ state \in DisplayStates => to_idle_countdown \in 1..8

\* The eighth tick in DisplayCalibrationDate: Idle, the timer stopped
C25_Witness ==
    \E e \in last :
        /\ e.command = CMD_TICK
        /\ e.state = S_DISPLAY_C_DATE
        /\ e.countdown = 1
        /\ state = S_IDLE
        /\ ~timer
        /\ to_idle_countdown = 0
        /\ display = Blank
        /\ running

\* The commands with no branch to take in the state st: the program
\* button in Idle and DisplayRa, the program button held outside program
\* mode, the tick, "UP" and "DOWN" in Idle
Meaningless(command, st) ==
    \/ command = CMD_BUTTON_2 /\ st \in {S_IDLE, S_DISPLAY_RA}
    \/ command = CMD_BUTTON_2_LONG /\ st \in DisplayStates \cup {S_IDLE}
    \/ command \in {CMD_TICK, CMD_BUTTON_3, CMD_BUTTON_4} /\ st = S_IDLE

\* C26: a command with no branch to take in the current state changes
\* nothing: the state, the program-mode value, the countdown to idle, the
\* brightness, the stored RA target and calibration date, the FRAM and its
\* cache and the clock are as before, nothing is written, and the main loop
\* keeps running.
C26_MeaninglessChangesNothing ==
    \A e \in last :
        Meaningless(e.command, e.state) =>
            /\ e.result
            /\ ~e.raised
            /\ running
            /\ state = e.state
            /\ programming_value = e.value
            /\ programming_value = None
            /\ to_idle_countdown = e.countdown
            /\ brightness = e.brightness
            /\ display_brightness = brightness
            /\ Unedited(e.stored)
            /\ e.writes = <<>>
            /\ e.set_brightness = <<>>
            /\ timer <=> state # S_IDLE

\* The program button held in DisplayRaTarget with the brightness raised
\* before and two ticks gone
C26_Witness ==
    \E e \in last :
        /\ e.command = CMD_BUTTON_2_LONG
        /\ e.state = S_DISPLAY_RA_TARGET
        /\ e.countdown = 6
        /\ e.brightness = 2
        /\ state = S_DISPLAY_RA_TARGET
        /\ to_idle_countdown = 6
        /\ brightness = 2
        /\ running

-----------------------------------------------------------------------------
(* StateMachine: program mode *)

\* The program-mode value is v, with the left side, the right side or both
\* to flash
Editing(v, left, right) ==
    /\ programming
    /\ programming_value = Some(v)
    /\ programming_left = left
    /\ programming_right = right
    /\ to_idle_countdown = 0

\* C27: the program button in DisplayRaTarget enters ProgramRaTargetHour
\* with the value to program made of the stored RA target, in
\* DisplayCalibrationDate ProgramCalibrationDay with the stored
\* calibration date, in DisplayClock ProgramClock with the clock's hour
\* and minute; in program mode it moves between ProgramRaTargetHour and
\* ProgramRaTargetMinute and between ProgramCalibrationDay and
\* ProgramCalibrationMonth, the side to flash moving with it and the value
\* to program kept as edited, and changes nothing in ProgramClock. Nothing
\* stored changes.
C27_ProgramEnterSeedsAndToggles ==
    \A e \in last :
        e.command = CMD_BUTTON_2 =>
            /\ Unedited(e.stored)
            /\ e.writes = <<>>
            /\ e.state = S_DISPLAY_RA_TARGET =>
                  /\ state = S_PROGRAM_RA_TARGET_H
                  /\ Holds("ra_target", ra_target)
                  /\ Editing(Fmt02d(ra_target.h) \o Fmt02d(ra_target.m),
                             TRUE, FALSE)
            /\ e.state = S_DISPLAY_C_DATE =>
                  /\ state = S_PROGRAM_C_DAY
                  /\ Holds("calibration_date", calibration_date)
                  /\ Editing(Fmt2d(calibration_date.d)
                             \o MONTH_NAME[calibration_date.m], TRUE, FALSE)
            /\ e.state = S_DISPLAY_CLOCK =>
                  /\ state = S_PROGRAM_CLOCK
                  /\ Editing(Fmt02d(rtc.h) \o Fmt02d(rtc.m), TRUE, TRUE)
            /\ e.state \in ProgramStates =>
                  /\ e.value # None
                  /\ programming_value = e.value
                  /\ state = CASE e.state = S_PROGRAM_RA_TARGET_H ->
                                    S_PROGRAM_RA_TARGET_M
                               [] e.state = S_PROGRAM_RA_TARGET_M ->
                                    S_PROGRAM_RA_TARGET_H
                               [] e.state = S_PROGRAM_C_DAY -> S_PROGRAM_C_MONTH
                               [] e.state = S_PROGRAM_C_MONTH -> S_PROGRAM_C_DAY
                               [] OTHER -> S_PROGRAM_CLOCK
                  /\ Editing(Get(e.value),
                             state \in {S_PROGRAM_RA_TARGET_H, S_PROGRAM_C_DAY,
                                        S_PROGRAM_CLOCK},
                             state \in {S_PROGRAM_RA_TARGET_M,
                                        S_PROGRAM_C_MONTH, S_PROGRAM_CLOCK})

\* From "0516", "UP" on the hour and "UP" on the minute, then back to the
\* hour side with "0617"
C27_Witness ==
    \E e \in last :
        /\ e.command = CMD_BUTTON_2
        /\ e.state = S_PROGRAM_RA_TARGET_M
        /\ e.value = Some(<<"0", "6", "1", "7">>)
        /\ state = S_PROGRAM_RA_TARGET_H
        /\ Editing(<<"0", "6", "1", "7">>, TRUE, FALSE)
        /\ ra_target = DEFAULT_RA_TARGET
        /\ presses = 2

\* What "UP" and "DOWN" leave alone in program mode: the state, the sides
\* to flash, the countdown, the brightness, the stored values, the FRAM,
\* the clock
EditOnly(e) ==
    /\ state = e.state
    /\ programming
    /\ programming_left = (state \in {S_PROGRAM_RA_TARGET_H, S_PROGRAM_C_DAY,
                                      S_PROGRAM_CLOCK})
    /\ programming_right = (state \in {S_PROGRAM_RA_TARGET_M,
                                       S_PROGRAM_C_MONTH, S_PROGRAM_CLOCK})
    /\ programming_state = EnteredFrom(state)
    /\ to_idle_countdown = e.countdown
    /\ brightness = e.brightness
    /\ display_brightness = brightness
    /\ timer
    /\ running
    /\ Unedited(e.stored)
    /\ e.writes = <<>>
    /\ e.set_brightness = <<>>

\* +1 for "UP", -1 for "DOWN"
Step(command) == IF command = CMD_BUTTON_4 THEN 1 ELSE -1

\* C28: "UP" and "DOWN" in ProgramRaTargetHour move the hour of the value
\* to program by one within 0..23, from 23 to 0 and from 0 to 23, and leave
\* its minute; in ProgramRaTargetMinute they move the minute by one within
\* 0..59, from 59 to 0 and from 0 to 59, and leave its hour; the stored RA
\* target and every other field of the state machine stay as they are.
C28_RaTargetSubField ==
    \A e \in last : \A v \in e.value :
        (/\ e.command \in {CMD_BUTTON_3, CMD_BUTTON_4}
         /\ e.state \in {S_PROGRAM_RA_TARGET_H, S_PROGRAM_RA_TARGET_M}) =>
            /\ EditOnly(e)
            /\ programming_value # None
            /\ LET w == Get(programming_value)
                   hour == int(Left(v))
                   minute == int(Right(v))
               IN  /\ Len(w) = 4
                   /\ e.state = S_PROGRAM_RA_TARGET_H =>
                         /\ int(Left(w)) = (hour + Step(e.command) + 24) % 24
                         /\ int(Right(w)) = minute
                   /\ e.state = S_PROGRAM_RA_TARGET_M =>
                         /\ int(Left(w)) = hour
                         /\ int(Right(w)) = (minute + Step(e.command) + 60) % 60
                   /\ int(Left(w)) \in 0..23
                   /\ int(Right(w)) \in 0..59

\* "UP" on the minute of 05:59 gives 05:00, the hour as it was
C28_Witness ==
    \E e \in last :
        /\ e.command = CMD_BUTTON_4
        /\ e.state = S_PROGRAM_RA_TARGET_M
        /\ e.value = Some(<<"0", "5", "5", "9">>)
        /\ programming_value = Some(<<"0", "5", "0", "0">>)
        /\ state = S_PROGRAM_RA_TARGET_M
        /\ ra_target = DEFAULT_RA_TARGET

\* The minute of the day of the value 'hhmm'
MinuteOfDay(v) == 60 * int(Left(v)) + int(Right(v))

\* C29: in ProgramClock "UP" moves the value to program one minute on and
\* "DOWN" one minute back over the day of 1440 minutes: after 59 the
\* minute is 0 with the next hour, after 23:59 comes 00:00 and before
\* 00:00 comes 23:59; the value is always two digits of an hour 0..23 and
\* two of a minute 0..59, and nothing else changes.
C29_ClockMinuteOfDay ==
    /\ state = S_PROGRAM_CLOCK =>
          \A w \in programming_value :
              /\ int(Left(w)) \in 0..23
              /\ int(Right(w)) \in 0..59
              /\ w = Fmt02d(int(Left(w))) \o Fmt02d(int(Right(w)))
    /\ \A e \in last : \A v \in e.value :
          (/\ e.command \in {CMD_BUTTON_3, CMD_BUTTON_4}
           /\ e.state = S_PROGRAM_CLOCK) =>
              /\ EditOnly(e)
              /\ programming_value # None
              /\ MinuteOfDay(Get(programming_value)) =
                    (MinuteOfDay(v) + Step(e.command) + DAY_MINUTES)
                    % DAY_MINUTES

\* "DOWN" at 00:00 gives 23:59
C29_Witness ==
    \E e \in last :
        /\ e.command = CMD_BUTTON_3
        /\ e.state = S_PROGRAM_CLOCK
        /\ e.value = Some(<<"0", "0", "0", "0">>)
        /\ programming_value = Some(<<"2", "3", "5", "9">>)
        /\ state = S_PROGRAM_CLOCK
        /\ rtc.h = 21 /\ rtc.m = 30

\* The day and month of the value to program ' dMm'; the month is 0 or -1
\* when the name is not a month's
DateOf(v) == [d |-> int(Left(v)), m |-> MonthIndex(Right(v))]

\* A day of the calendar of _DAYS, February with 28
ValidDate(c) == c.m \in 1..12 /\ c.d \in 1..DAYS[c.m]

\* C30: "UP" and "DOWN" in ProgramCalibrationDay move the day by one within
\* 1..the days of the month of the value to program (February 28), from
\* the last day to 1 and from 1 to the last; in ProgramCalibrationMonth
\* they move the month by one within 1..12, from 12 to 1 and from 1 to 12,
\* with the day brought down to the days of the new month; the value to
\* program and the stored calibration date are always a day of the
\* calendar, also after the commit.
C30_CalibrationDateValid ==
    /\ ValidDate(calibration_date)
    /\ Holds("calibration_date", calibration_date)
    /\ state \in {S_PROGRAM_C_DAY, S_PROGRAM_C_MONTH} =>
          \A w \in programming_value :
              /\ ValidDate(DateOf(w))
              /\ w = Fmt2d(DateOf(w).d) \o MONTH_NAME[DateOf(w).m]
    /\ \A e \in last : \A v \in e.value :
          LET c == DateOf(v) IN
          /\ (e.command \in {CMD_BUTTON_3, CMD_BUTTON_4}
              /\ e.state = S_PROGRAM_C_DAY) =>
                /\ EditOnly(e)
                /\ programming_value # None
                /\ DateOf(Get(programming_value)) =
                      [d |-> ((c.d - 1 + Step(e.command) + DAYS[c.m])
                              % DAYS[c.m]) + 1,
                       m |-> c.m]
          /\ (e.command \in {CMD_BUTTON_3, CMD_BUTTON_4}
              /\ e.state = S_PROGRAM_C_MONTH) =>
                /\ EditOnly(e)
                /\ programming_value # None
                /\ LET month == ((c.m - 1 + Step(e.command) + 12) % 12) + 1
                   IN  DateOf(Get(programming_value)) =
                          [d |-> IF c.d > DAYS[month] THEN DAYS[month]
                                 ELSE c.d,
                           m |-> month]
          /\ (e.command = CMD_BUTTON_2_LONG
              /\ e.state \in {S_PROGRAM_C_DAY, S_PROGRAM_C_MONTH}) =>
                /\ calibration_date = c
                /\ state = S_DISPLAY_C_DATE

\* "UP" on the month of 31 January gives 28 February
C30_Witness ==
    \E e \in last :
        /\ e.command = CMD_BUTTON_4
        /\ e.state = S_PROGRAM_C_MONTH
        /\ e.value = Some(<<"3", "1", "J", "a">>)
        /\ programming_value = Some(<<"2", "8", "F", "e">>)
        /\ state = S_PROGRAM_C_MONTH
        /\ calibration_date = DEFAULT_CALIBRATION_DATE

-----------------------------------------------------------------------------
(* StateMachine: the stored values *)

\* C31: "UP" and "DOWN" in a display state move the brightness by exactly
\* one, or leave it at its limit (20 for "UP", 1 for "DOWN"); after every
\* command the brightness of the state machine, the one cached by the
\* RaFRAM, the one in the valid record of the FRAM and the one set on the
\* display are equal, and the RA target and the calibration date of the
\* state machine are those cached by the RaFRAM and held by the valid
\* records of the FRAM.
C31_CopiesAgree ==
    /\ Holds("brightness", brightness)
    /\ display_brightness = brightness
    /\ Holds("ra_target", ra_target)
    /\ Holds("calibration_date", calibration_date)
    /\ \A e \in last :
          (e.command \in {CMD_BUTTON_3, CMD_BUTTON_4}
           /\ e.state \in DisplayStates) =>
              brightness =
                  IF e.command = CMD_BUTTON_4
                  THEN (IF e.brightness = MAX_BRIGHTNESS THEN MAX_BRIGHTNESS
                        ELSE e.brightness + 1)
                  ELSE (IF e.brightness = MIN_BRIGHTNESS THEN MIN_BRIGHTNESS
                        ELSE e.brightness - 1)

\* "UP" in DisplayRa from the brightness 1: 2 everywhere
C31_Witness ==
    \E e \in last :
        /\ e.command = CMD_BUTTON_4
        /\ e.state = S_DISPLAY_RA
        /\ e.brightness = 1
        /\ brightness = 2
        /\ display_brightness = 2
        /\ cache["brightness"] = Some(2)
        /\ Payload("brightness") = <<2>>
        /\ Marker("brightness") = VALID

\* C32: a tick processed in program mode shows the whole value to program
\* and then, for each side that is set to flash, clears the side if it was
\* on and leaves it shown if it was off, the side's flag changing over: a
\* flashing side is clear after one tick and shown after the next. The
\* tick leaves a side that is not set to flash shown, and in ProgramClock
\* the flags of the two sides are always equal.
C32_Flash ==
    /\ state = S_PROGRAM_CLOCK =>
          /\ programming_left /\ programming_right
          /\ programming_left_on = programming_right_on
    /\ \A e \in last : \A v \in e.value :
          (e.command = CMD_TICK /\ e.state \in ProgramStates) =>
              /\ state = e.state
              /\ programming_value = e.value
              /\ programming_left \/ programming_right
              /\ show(v, Blank).l # Blank.l
              /\ show(v, Blank).r # Blank.r
              /\ IF programming_left
                 THEN /\ programming_left_on = ~e.left_on
                      /\ display.l = IF e.left_on THEN Blank.l
                                     ELSE show(v, Blank).l
                 ELSE /\ programming_left_on = e.left_on
                      /\ display.l = show(v, Blank).l
              /\ IF programming_right
                 THEN /\ programming_right_on = ~e.right_on
                      /\ display.r = IF e.right_on THEN Blank.r
                                     ELSE show(v, Blank).r
                 ELSE /\ programming_right_on = e.right_on
                      /\ display.r = show(v, Blank).r

\* The second tick on the hour side after an "UP": the hour is shown
\* again, with its new value
C32_Witness ==
    \E e \in last :
        /\ e.command = CMD_TICK
        /\ e.state = S_PROGRAM_RA_TARGET_H
        /\ ~e.left_on
        /\ programming_left_on
        /\ programming_value = Some(<<"0", "6", "1", "6">>)
        /\ display = [l |-> <<" ", "6">>, r |-> <<"1", "6">>]

-----------------------------------------------------------------------------
(* C33, C34: the button handlers *)

\* The number of times the statement stmt is in the sequence did
Times(stmt, did) == Cardinality({i \in 1..Len(did) : did[i] = stmt})

\* C33: for each edge a handler handles, at most one command is put; none
\* is put when the pin is not asserted after the debounce; btn_2 and
\* btn_4 put their long command exactly when the duration measured is at
\* least _LONG_BUTTON_PRESS_MS and their short command otherwise; btn_1
\* and btn_3 only put their short command; and on every path the
\* interrupt is the first thing the handler sets off and the last thing it
\* sets again
C33_InputClassification ==
    \A b \in Buttons :
        LET r == button[b]
        IN  /\ Times("put", r.did) <= 1
            /\ (r.sent # None) = (Times("put", r.did) = 1)
            /\ ~r.level => r.sent = None
            /\ (r.level /\ r.pc = 0 /\ r.did # <<>>) => r.sent # None
            /\ (b \in Measured /\ r.sent # None) =>
                  /\ r.duration # None
                  /\ (r.sent = Some(long_command(b)))
                        = (Get(r.duration) >= LONG_BUTTON_PRESS_MS)
                  /\ (r.sent = Some(short_command(b)))
                        = (Get(r.duration) < LONG_BUTTON_PRESS_MS)
            /\ (b \notin Measured /\ r.sent # None) =>
                  r.sent = Some(short_command(b))
            /\ r.did # <<>> =>
                  /\ Head(r.did) = "irq_off"
                  /\ Times("irq_off", r.did) = 1
            /\ r.irq = (Times("irq_off", r.did) = Times("irq_on", r.did))
            /\ (r.pc = 0 /\ r.did # <<>>) =>
                  /\ r.did[Len(r.did)] = "irq_on"
                  /\ r.irq

\* A press of btn_2 of exactly the threshold has put the long command, a
\* press of btn_4 just under it the short one, btn_1 has put its command
\* and every handler has returned
C33_Witness ==
    /\ \A b \in Buttons : button[b].pc = 0
    /\ button[2].duration = Some(LONG_BUTTON_PRESS_MS)
    /\ button[2].sent = Some(CMD_BUTTON_2_LONG)
    /\ button[4].duration = Some(LONG_BUTTON_PRESS_MS - 1)
    /\ button[4].sent = Some(CMD_BUTTON_4)
    /\ button[1].sent = Some(CMD_BUTTON_1)

\* The place of the statement stmt in the sequence did, 0 when it is
\* not there
Place(stmt, did) ==
    IF Times(stmt, did) = 0
    THEN 0
    ELSE CHOOSE i \in 1..Len(did) :
            did[i] = stmt /\ \A j \in 1..(i - 1) : did[j] # stmt

\* C34 as stated: in every button handler the interrupt of the pin is set
\* again before the command is put on the queue
C34_RearmBeforePut ==
    \A b \in Buttons :
        Times("put", button[b].did) > 0 =>
            /\ Place("irq_on", button[b].did) # 0
            /\ Place("irq_on", button[b].did) < Place("put", button[b].did)

\* C34, what the handlers do: the command is put on the queue while the
\* interrupt of the pin is still off, and the interrupt is set again
\* after the put, as the handler's last statement
C34_PutBeforeRearm ==
    \A b \in Buttons :
        Times("put", button[b].did) > 0 =>
            /\ Place("irq_off", button[b].did) < Place("put", button[b].did)
            /\ Times("irq_on", SubSeq(button[b].did, 1,
                                      Place("put", button[b].did))) = 0
            /\ button[b].pc = 0 =>
                  Place("put", button[b].did)
                      < Place("irq_on", button[b].did)

\* btn_1 and btn_2 have each put a command and returned
C34_Witness ==
    /\ button[1].pc = 0 /\ button[1].sent # None
    /\ button[2].pc = 0 /\ button[2].sent # None
    /\ button[1].irq /\ button[2].irq

-----------------------------------------------------------------------------
(* RaFRAM: the default written by a read, clear and the memory map *)

\* A step of a RaFRAM call (a power cut is not one)
CallStep == fram_ops' = fram_ops \/ fram_ret' # None \/ fram_call' # None

\* A read_* call returns without a write
ReadReturnsAtOnce ==
    /\ fram_call = None
    /\ fram_call' = None
    /\ fram_ops' # fram_ops
    /\ fram_ret' # None

\* The write of the default by a read_* call makes its last byte write
DefaultWriteEnds ==
    /\ fram_call # None
    /\ Get(fram_call).op = "read"
    /\ fram_call' = None
    /\ fram_ops' = fram_ops

\* C35: a read_* call with an empty cache and a marker other than VALID
\* writes the default (brightness 1, RA 5h16, 3 January) with the byte
\* writes of a write_* call, leaves the record valid with the default as
\* payload, caches the default and returns it; with an empty cache and a
\* VALID marker it returns the stored payload and writes nothing.
C35_LazyDefault ==
    [][ /\ \A c \in fram_call' :
              c.op = "read" =>
                  /\ c.done + Len(c.todo) = 2 + PayloadLength(c.field)
                  /\ fram_call = None =>
                        /\ cache[c.field] = None
                        /\ Marker(c.field) # VALID
                        /\ c.value =
                             (CASE c.field = "brightness" -> 1
                                [] c.field = "ra_target" -> [h |-> 5, m |-> 16]
                                [] c.field = "calibration_date" ->
                                       [d |-> 3, m |-> 1])
                        /\ c.todo = write_value(Offset(c.field),
                                                Values(c.field, c.value))
                        /\ fram' = fram /\ cache' = cache
        /\ DefaultWriteEnds =>
              LET c == Get(fram_call)
              IN  /\ fram'[Offset(c.field)] = VALID
                  /\ read_values(fram', Offset(c.field),
                                 PayloadLength(c.field))
                        = Values(c.field, c.value)
                  /\ cache'[c.field] = Some(c.value)
                  /\ Get(fram_ret').op = "read"
                  /\ Get(fram_ret').field = c.field
                  /\ Get(fram_ret').value = Some(c.value)
        /\ ReadReturnsAtOnce =>
              LET f == Get(fram_ret').field
              IN  /\ Get(fram_ret').op = "read"
                  /\ cache[f] = None =>
                        /\ Marker(f) = VALID
                        /\ fram' = fram
                        /\ Get(fram_ret').value =
                              Some(FromValues(f, Payload(f)))
                        /\ cache'[f] = Get(fram_ret').value
      ]_vars

\* read_brightness has returned the 15 stored before a power cut, with
\* nothing cached, and then read_calibration_date has written the default
\* over an invalid record and returned it
C35_Witness ==
    \E r \in fram_ret :
        /\ r.op = "read" /\ r.field = "calibration_date"
        /\ r.value = Some(DEFAULT_CALIBRATION_DATE)
        /\ \E q \in r.prev :
              q.op = "read" /\ q.field = "brightness"
              /\ q.value = Some(MAX_BRIGHTNESS)
        /\ Marker("calibration_date") = VALID
        /\ Payload("calibration_date") = <<3, 1>>
        /\ cache["calibration_date"] = Some(DEFAULT_CALIBRATION_DATE)
        /\ fram_ops = 4

\* C36: clear() sets the marker bytes at offsets 0, 2 and 5 to invalid
\* and leaves every payload byte and every cached value as it was.
C36_ClearFrame ==
    [][ (\E c \in fram_call : c.op = "clear") /\ CallStep =>
            /\ cache' = cache
            /\ \A o \in (0..7) \ {0, 2, 5} : fram'[o] = fram[o]
            /\ \A o \in {0, 2, 5} : fram'[o] \in {fram[o], INVALID}
            /\ fram_call' = None =>
                  /\ \A o \in {0, 2, 5} : fram'[o] = INVALID
                  /\ Get(fram_ret').op = "clear"
      ]_vars

\* clear() has returned with a brightness of 15 in the cache and in the
\* payload byte
C36_Witness ==
    /\ \E r \in fram_ret : r.op = "clear"
    /\ fram_call = None
    /\ cache["brightness"] = Some(MAX_BRIGHTNESS)
    /\ fram[1] = MAX_BRIGHTNESS
    /\ fram[0] = INVALID /\ fram[2] = INVALID /\ fram[5] = INVALID

\* The bytes of a record in the memory map
RecordBytes(f) ==
    CASE f = "brightness" -> 0..1
      [] f = "ra_target" -> 2..4
      [] f = "calibration_date" -> 5..7

\* The record a step of a call works on: that of the call in progress,
\* of the call that starts, or of the read that returns at once
StepField ==
    IF fram_call # None THEN Get(fram_call).field
    ELSE IF fram_call' # None THEN Get(fram_call').field
    ELSE IF fram_ret' # None THEN Get(fram_ret').field
    ELSE ""

\* C37: the records are at disjoint offsets (brightness 0..1, RA target
\* 2..4, calibration date 5..7); a write_* call and the write of a default
\* by a read_* change only the bytes and the cache entry of their record
\* and leave the other two records and cache entries as they were.
C37_DisjointRecords ==
    [][ (CallStep /\ StepField \in Records) =>
            /\ \A o \in (0..7) \ RecordBytes(StepField) : fram'[o] = fram[o]
            /\ \A g \in Records \ {StepField} : cache'[g] = cache[g]
            /\ \A c \in fram_call :
                  fram_call' = None =>
                      /\ fram'[Offset(c.field)] = VALID
                      /\ Offset(c.field) \in RecordBytes(c.field)
                      /\ cache'[c.field] = Some(c.value)
      ]_vars

\* write_calibration_date(31, 12) has returned beside a valid RA target
\* of 23h59 written before it
C37_Witness ==
    /\ \E r \in fram_ret :
          r.op = "write" /\ r.field = "calibration_date"
          /\ r.arg = Some([d |-> 31, m |-> 12])
    /\ fram[5] = VALID /\ fram[6] = 31 /\ fram[7] = 12
    /\ fram[2] = VALID /\ fram[3] = 23 /\ fram[4] = 59
    /\ cache["ra_target"] = Some([h |-> 23, m |-> 59])

-----------------------------------------------------------------------------
(* StateMachine: "UP" and "DOWN" one after the other *)

\* C38: in every program state "UP" right after "DOWN", and "DOWN" right
\* after "UP", leave the four characters of the value to program exactly
\* as they were before the two (the day when the month is changed and the
\* leading zero of the RA target hour included).
C38_UpDownRestores ==
    [][ \A first \in last : \A second \in last' :
            (/\ {first.command, second.command}
                    = {CMD_BUTTON_3, CMD_BUTTON_4}
             /\ first.state \in ProgramStates
             /\ second.state = first.state
             /\ second.value = programming_value) =>
                programming_value' = first.value
      ]_vars

-----------------------------------------------------------------------------
(* RaDisplay.show_ra: the drift from one hour to the next *)

\* C39: the drift show_ra adds to the target RA and the clock,
\* clock_hours // 6 + 4 * whole_days, does not go down as the clock goes
\* on from the calibration date towards the next time the date comes; it
\* does not drop at the midnight that ends the day of the calibration.
C39_DriftNeverDecreases ==
    [][ \A before \in show_ra_out : \A after \in show_ra_out' :
            (~before.raised /\ ~after.raised) =>
                after.drift >= before.drift
      ]_vars

-----------------------------------------------------------------------------
(* main: the loop on the CommandQueue *)

\* Every command stored is in the queue, in cmd, or was given to
\* process_command, and is in one of these only; the loop that holds a
\* command in cmd is running and can process it
StoredOnce ==
    /\ appended = Len(queue) + delivered
    /\ delivered = Cardinality(cmd) + processed
    /\ Cardinality(cmd) <= 1
    /\ \A command \in cmd :
          /\ running
          /\ command \in {CMD_BUTTON_3, CMD_BUTTON_4} => presses < MaxPresses

\* get() on a queue that is not empty takes its first command, and
\* process_command is given the command that get() returned
LoopSteps ==
    /\ (cmd = None /\ delivered' # delivered) =>
          /\ queue # <<>>
          /\ cmd' = Some(Head(queue))
          /\ queue' = Tail(queue)
    /\ (cmd = None /\ queue # <<>> /\ queue_log' # queue_log
        /\ puts' = puts) => cmd' # None
    /\ processed' # processed =>
          /\ cmd # None
          /\ cmd' = None
          /\ processed' = processed + 1
          /\ \E e \in last' : e.command = Get(cmd)

\* C40: with the main loop going on whenever it can, every command stored
\* in the queue is in time taken from it and given to process_command,
\* once, unless the loop was left before (again and again every command
\* stored so far has been processed, or the loop has been left); the loop
\* waits for a command only while the queue is empty.
C40_LoopLiveness ==
    /\ []StoredOnce
    /\ [][LoopSteps]_vars
    /\ []<>(processed = appended \/ ~running)

\* Three commands were stored and each was processed, and the loop runs
C40_Witness ==
    /\ appended = 3
    /\ processed = 3
    /\ puts = 3
    /\ queue = <<>>
    /\ cmd = None
    /\ running
    /\ state = S_DISPLAY_CLOCK

====
